---- MODULE Spec2Model ----
(***************************************************************************)
(* The incremental display-update engine of src/basilisk/video_esp32.cpp:  *)
(* the emulation core (CPU thread, core 1) writes the indexed frame        *)
(* buffer, marks tiles dirty, signals frames, changes the palette and      *)
(* drives VideoInit/VideoExit; the render task (core 0) drains the dirty   *)
(* bitmap and renders full or partial updates to the display.              *)
(*                                                                         *)
(* A 32-bit bitmap word is the set of its set bit positions (0..31).       *)
(* A pointer is "NULL" or "PTR"; heap[b] tells whether the block behind    *)
(* buffer b is live or freed.  Time is kept as ages that saturate at the   *)
(* value they are compared with.                                           *)
(***************************************************************************)
EXTENDS Integers, Sequences, FiniteSets, TLC

\* ------------------------------------------------------------------------
\* Program constants
\* ------------------------------------------------------------------------
MAC_SCREEN_WIDTH == 640
MAC_SCREEN_HEIGHT == 360
PIXEL_SCALE == 2
DISPLAY_WIDTH == 1280
DISPLAY_HEIGHT == 720
TILE_WIDTH == 40
TILE_HEIGHT == 40
TILES_X == 16
TILES_Y == 9
TOTAL_TILES == TILES_X * TILES_Y
DIRTY_THRESHOLD_PERCENT == 80
WORD_BITS == 32
BITMAP_WORDS == (TOTAL_TILES + 31) \div 32
MIN_FRAME_TICKS == 67
STOP_DELAY_TICKS == 100
FRAME_BYTES == MAC_SCREEN_WIDTH * MAC_SCREEN_HEIGHT

\* ------------------------------------------------------------------------
\* Bounds of the model
\* ------------------------------------------------------------------------
\* Longest program of operations the CPU thread runs,
MaxOps == 3
\* and the longest one under the fair specification.
MaxFairOps == 2
\* Operations in a CPU program that changes the palette.
MaxPalOps == 2
\* Operations of a CPU program between VideoInit and VideoExit.
MaxLifeOps == 1
\* Calls of VideoExit at the end of a program.
MaxExits == 2
MaxRangeSize == 3
MaxRangeSpan == 3
ColourStep == 37
\* Palette entries that are modelled (a prefix of the 256).
PalModelled == 2
\* Frames counted before the 5 s statistics report resets the counters.
PerfCap == 1
\* Pending task notifications counted (only "more than zero" is observed).
MaxNotify == 1
\* Ticks by which one step of the clock advances the ages.
TickStep == 34

\* ------------------------------------------------------------------------
\* Helpers
\* ------------------------------------------------------------------------
Min(a, b) == IF a < b THEN a ELSE b

BufNames == {"mac", "snapshot", "compare", "dsi"}

\* (1u << (tile_idx % 32)) into word tile_idx / 32
WordOf(tile_idx) == tile_idx \div WORD_BITS
BitOf(tile_idx) == tile_idx % WORD_BITS

\* The tiles whose bits are set in a bitmap.
TilesOf(bitmap) ==
    {w * WORD_BITS + b : w \in DOMAIN bitmap, b \in 0..(WORD_BITS - 1)}
      \cap {t \in 0..(BITMAP_WORDS * WORD_BITS - 1) : BitOf(t) \in bitmap[WordOf(t)]}

ZeroBitmap == [w \in 0..(BITMAP_WORDS - 1) |-> {}]

\* (a count that looks at the lowest bit only)
PopCountLoop_LowBit(bits) == IF 0 \in bits THEN 1 ELSE 0

\* while (bits) { count += (bits & 1); bits >>= 1; }
RECURSIVE PopCountLoop(_)
PopCountLoop(bits) ==
    IF bits = {} THEN 0
    ELSE (IF 0 \in bits THEN 1 ELSE 0) + PopCountLoop({b - 1 : b \in bits \ {0}})

\* (a tile index computed with the number of tile rows as the row stride)
TileOfOffset_RowStride(offset) ==
    LET y == offset \div MAC_SCREEN_WIDTH
        x == offset % MAC_SCREEN_WIDTH
        tile_x == x \div TILE_WIDTH
        tile_y == y \div TILE_HEIGHT
    IN  tile_y * TILES_Y + tile_x

\* VideoMarkDirtyOffset: the tile of a byte offset.
TileOfOffset(offset) ==
    LET y == offset \div MAC_SCREEN_WIDTH
        x == offset % MAC_SCREEN_WIDTH
        tile_x == x \div TILE_WIDTH
        tile_y == y \div TILE_HEIGHT
    IN  tile_y * TILES_X + tile_x

\* snapshotTile(src_buffer, tile_x, tile_y, snapshot): whether the byte at
\* offset is one it copies, that is whether for some row < TILE_HEIGHT the
\* offset lies in [src, src + TILE_WIDTH) with src = (tile_y * TILE_HEIGHT
\* + row) * MAC_SCREEN_WIDTH + tile_x * TILE_WIDTH.  As TILE_WIDTH is less
\* than MAC_SCREEN_WIDTH the row is the quotient computed here.
snapshotTile(tile_x, tile_y, offset) ==
    LET base == offset - tile_x * TILE_WIDTH
        row == (base \div MAC_SCREEN_WIDTH) - tile_y * TILE_HEIGHT
    IN  /\ base >= 0
        /\ row >= 0 /\ row < TILE_HEIGHT
        /\ base % MAC_SCREEN_WIDTH < TILE_WIDTH

\* isTileDirty
isTileDirty(bitmap, tile_idx) == BitOf(tile_idx) \in bitmap[WordOf(tile_idx)]

\* (the 565 packing without the byte swap: RRRRRGGG GGGBBBBB read high to low)
rgb888_to_rgb565_NoSwap(r, g, b) ==
    ((r \div 8) * 2048 + (g \div 4) * 32 + (b \div 8)) % 65536

\* rgb888_to_rgb565, truncated to its uint16 return type.
rgb888_to_rgb565(r, g, b) ==
    (((r \div 8) * 8 + (g \div 32)) + (((g \div 4) * 32 + (b \div 8)) * 256)) % 65536

\* (TOTAL_TILES * DIRTY_THRESHOLD_PERCENT) / 100
dirty_threshold == (TOTAL_TILES * DIRTY_THRESHOLD_PERCENT) \div 100

\* (a threshold test that is met at the threshold itself)
ThresholdExceeded_AtLeast(count) == count >= dirty_threshold

\* if (dirty_tile_count > dirty_threshold) do_full_update = true;
ThresholdExceeded(count) == count > dirty_threshold

\* (a push of the tile's block at the source scale)
TileWindow_Unscaled(tx, ty) ==
    [x |-> tx * TILE_WIDTH, y |-> ty * TILE_HEIGHT, w |-> TILE_WIDTH, h |-> TILE_HEIGHT,
     n |-> TILE_WIDTH * TILE_HEIGHT]

\* The destination window of a tile: setAddrWindow(x, y, w, h) and the
\* pixel count given to writePixels.
TileWindow(tx, ty) ==
    [x |-> tx * (TILE_WIDTH * PIXEL_SCALE), y |-> ty * (TILE_HEIGHT * PIXEL_SCALE),
     w |-> TILE_WIDTH * PIXEL_SCALE, h |-> TILE_HEIGHT * PIXEL_SCALE,
     n |-> (TILE_WIDTH * PIXEL_SCALE) * (TILE_HEIGHT * PIXEL_SCALE)]

\* (a push of the whole display with the pixel count of the source frame)
FullWindow_SourceCount ==
    [x |-> 0, y |-> 0, w |-> DISPLAY_WIDTH, h |-> DISPLAY_HEIGHT,
     n |-> MAC_SCREEN_WIDTH * MAC_SCREEN_HEIGHT]

\* The window and pixel count of pushFramebufferToDisplay.
FullWindow ==
    [x |-> 0, y |-> 0, w |-> DISPLAY_WIDTH, h |-> DISPLAY_HEIGHT,
     n |-> DISPLAY_WIDTH * DISPLAY_HEIGHT]

\* The byte offsets whose writes the history follows.
TrackedOffsets == {0, 38, 41, FRAME_BYTES - 1}

\* memset(mac_frame_buffer, 0x80, frame_buffer_size)
GrayFrame == [o \in TrackedOffsets |-> 128]

\* The frame after a store of byte value at each of the offsets.
StoredFrame(bytes, offsets, value) ==
    [o \in DOMAIN bytes |-> IF o \in offsets THEN value ELSE bytes[o]]

\* (a copy with its arguments exchanged, memcpy(src, dst, n), from a zeroed
\* destination)
SourceAfterCopy_Reversed(bytes, offsets) == StoredFrame(bytes, offsets, 0)

\* The source frame after the task has copied or rendered the bytes at the
\* offsets: memcpy(dst, src, TILE_WIDTH) and the pixel loops only read it.
SourceAfterCopy(bytes, offsets) == bytes

\* ------------------------------------------------------------------------
\* State
\* ------------------------------------------------------------------------
VARIABLES
    \* globals of video_esp32.cpp
    mac_frame_buffer, snapshot_buffer, compare_buffer, dsi_framebuffer,
    frame_buffer_size, heap,
    \* the bytes of the source frame buffer at the offsets followed
    mac_bytes,
    \* the mode of dirty detection, and for the compare fallback the bytes of
    \* snapshot_buffer and compare_buffer and the bytes last rendered
    use_write_dirty_tracking, snap_bytes, cmp_bytes, rendered_bytes,
    \* the static arrays of renderAndPushDirtyTiles at the followed offsets
    \* (-1 at an offset outside the tile they hold)
    tile_snapshot, tile_buffer,
    \* the pixels renderFrameToDSI wrote to the DSI framebuffer for the
    \* followed offsets, as pairs <<pixel index, colour>>, until
    \* pushFramebufferToDisplay has pushed them
    dsi_pixels,
    \* the pixels of the block pushed last by renderAndPushDirtyTiles for the
    \* followed offsets, as pairs <<pixel index on the display, colour>>
    tile_pixels,
    frame_ready, video_task_handle, video_task_running, notify_count,
    palette_rgb565, frame_spinlock,
    dirty_tiles, write_dirty_tiles, force_full_update, dirty_tile_count,
    perf_frame_count, perf_partial_count, perf_full_count, perf_skip_count,
    \* the render task: its position and locals
    vpc, notification, should_render, do_full_update, local_palette,
    dsi_palette, pal_i, drain_i, drain_count, src_buffer, tile_i,
    \* ages: time since the wait began, since the tick that last_frame_ticks
    \* holds, and since stopVideoTask began its delay
    waited, since_last_frame, exit_waited,
    \* the CPU thread: its position, the operation in progress, its program
    cpc, cur, script, init_result,
    \* the display: the blocks handed to it in the current render step, the
    \* kind of the step, and the partial updates completed so far
    pushed, step_kind, partial_renders,
    \* history: offsets written and not yet shown, offsets whose in-flight
    \* copy was read after their last write, tiles marked and not yet
    \* reported by a drain, tiles marked since the drain in progress began,
    \* the first memory fault of the task
    unshown, fresh, unreported, mid_drain_marks, fault,
    \* history of the palette: the tables palette_rgb565 has held outside
    \* set_palette's critical section, whether a set_palette has returned
    \* since the last render step began, and whether one had returned when
    \* the render step in progress began
    pal_tables, pal_returned, pal_owed

ptrVars == <<mac_frame_buffer, snapshot_buffer, compare_buffer, dsi_framebuffer,
             frame_buffer_size, heap, use_write_dirty_tracking, snap_bytes, cmp_bytes>>
tileVars == <<tile_snapshot, tile_buffer, dsi_pixels, tile_pixels>>
globalVars == <<ptrVars, mac_bytes, rendered_bytes, tileVars>>
syncVars == <<frame_ready, video_task_handle, video_task_running, notify_count>>
palVars == <<palette_rgb565, frame_spinlock>>
dirtyVars == <<dirty_tiles, write_dirty_tiles, force_full_update, dirty_tile_count>>
perfVars == <<perf_frame_count, perf_partial_count, perf_full_count, perf_skip_count>>
taskVars == <<vpc, notification, should_render, do_full_update, local_palette,
              dsi_palette, pal_i, drain_i, drain_count, src_buffer, tile_i>>
timeVars == <<waited, since_last_frame, exit_waited>>
cpuVars == <<cpc, cur, script, init_result>>
dispVars == <<pushed, step_kind, partial_renders>>
histVars == <<unshown, fresh, unreported, mid_drain_marks, fault>>
palHist == <<pal_tables, pal_returned, pal_owed>>

vars == <<globalVars, syncVars, palVars, dirtyVars, perfVars, taskVars, timeVars,
          cpuVars, dispVars, histVars, palHist>>


\* ------------------------------------------------------------------------
\* Initial states
\* ------------------------------------------------------------------------
\* VideoInit's default palette: gray = 255 - i, converted.
DefaultPalette ==
    [i \in 0..(PalModelled - 1) |-> rgb888_to_rgb565(255 - i, 255 - i, 255 - i)]

\* An array of the task's stack before it is first filled.
UninitPalette == [i \in 0..(PalModelled - 1) |-> -1]

\* No operation in progress on the CPU thread.
NoOp == [op |-> "none", a |-> 0, b |-> 0]

\* The render task's locals and the history, before the task has run.
TaskAtStart ==
    /\ notification = 0
    /\ should_render = FALSE
    /\ do_full_update = FALSE
    /\ local_palette = UninitPalette
    /\ dsi_palette = UninitPalette
    /\ pal_i = 0
    /\ drain_i = 0
    /\ drain_count = 0
    /\ src_buffer = "NULL"
    /\ tile_i = 0
    /\ waited = 0 /\ since_last_frame = 0 /\ exit_waited = 0
    /\ pushed = <<>> /\ step_kind = "none" /\ partial_renders = 0
    /\ unshown = {} /\ fresh = {} /\ unreported = {} /\ mid_drain_marks = {}
    /\ fault = "none"
    /\ pal_returned = FALSE /\ pal_owed = FALSE

\* The static initialisers (lines 91-155): nothing allocated, no task.
StaticState ==
    /\ mac_frame_buffer = "NULL" /\ snapshot_buffer = "NULL"
    /\ compare_buffer = "NULL" /\ dsi_framebuffer = "NULL"
    /\ frame_buffer_size = 0
    /\ heap = [b \in BufNames |-> "none"]
    /\ mac_bytes = [o \in TrackedOffsets |-> 0]
    /\ use_write_dirty_tracking = TRUE
    /\ snap_bytes = mac_bytes /\ cmp_bytes = mac_bytes
    /\ rendered_bytes = [o \in TrackedOffsets |-> -1]
    /\ tile_snapshot = [o \in TrackedOffsets |-> 0]
    /\ tile_buffer = [o \in TrackedOffsets |-> 0]
    /\ dsi_pixels = {} /\ tile_pixels = {}
    /\ frame_ready = FALSE
    /\ video_task_handle = "NULL"
    /\ video_task_running = FALSE
    /\ notify_count = 0
    /\ palette_rgb565 = [i \in 0..(PalModelled - 1) |-> 0]
    /\ frame_spinlock = "free"
    /\ dirty_tiles = ZeroBitmap
    /\ write_dirty_tiles = ZeroBitmap
    /\ force_full_update = TRUE
    /\ dirty_tile_count = 0
    /\ perf_frame_count = 0 /\ perf_partial_count = 0
    /\ perf_full_count = 0 /\ perf_skip_count = 0
    /\ TaskAtStart
    /\ pal_tables = {palette_rgb565}
    /\ vpc = "none"

\* The state VideoInit leaves when every allocation and the task creation
\* succeed: the task exists and has not run yet.
RunningMode(tracking) ==
    /\ use_write_dirty_tracking = tracking
    /\ mac_frame_buffer = "PTR" /\ snapshot_buffer = "PTR"
    /\ compare_buffer = "PTR" /\ dsi_framebuffer = "PTR"
    /\ frame_buffer_size = FRAME_BYTES
    /\ heap = [b \in BufNames |-> "live"]
    /\ mac_bytes = GrayFrame
    /\ snap_bytes = GrayFrame /\ cmp_bytes = GrayFrame
    /\ rendered_bytes = [o \in TrackedOffsets |-> -1]
    /\ tile_snapshot = [o \in TrackedOffsets |-> 0]
    /\ tile_buffer = [o \in TrackedOffsets |-> 0]
    /\ dsi_pixels = {} /\ tile_pixels = {}
    /\ frame_ready = FALSE
    /\ video_task_handle = "TASK"
    /\ video_task_running = TRUE
    /\ notify_count = 0
    /\ palette_rgb565 = DefaultPalette
    /\ frame_spinlock = "free"
    /\ dirty_tiles = ZeroBitmap
    /\ write_dirty_tiles = ZeroBitmap
    /\ force_full_update = TRUE
    /\ dirty_tile_count = 0
    /\ perf_frame_count = 0 /\ perf_partial_count = 0
    /\ perf_full_count = 0 /\ perf_skip_count = 0
    /\ TaskAtStart
    /\ pal_tables = {palette_rgb565}
    /\ vpc = "start"

\* The build of this source: use_write_dirty_tracking is initialised true
\* and never assigned.
RunningState == RunningMode(TRUE)

\* ------------------------------------------------------------------------
\* Memory accesses of the render task
\* ------------------------------------------------------------------------
\* What dereferencing pointer ptr to buffer b does.
Access(ptr, b) ==
    IF ptr = "NULL" THEN "null_deref"
    ELSE IF heap[b] = "live" THEN "ok" ELSE "use_after_free"

\* The fault recorded after accesses with the given outcomes: the first
\* fault is kept.
FaultAfter(outcomes) ==
    IF fault # "none" THEN fault
    ELSE IF "use_after_free" \in outcomes THEN "use_after_free"
    ELSE IF "null_deref" \in outcomes THEN "null_deref"
    ELSE "none"

\* ------------------------------------------------------------------------
\* The render task: videoRenderTaskOptimized
\* ------------------------------------------------------------------------
\* vTaskDelay(100); perf_last_report_ms = millis(); last_frame_ticks = now
TaskStart ==
    /\ vpc = "start"
    /\ vpc' = "loop"
    /\ since_last_frame' = 0
    /\ UNCHANGED <<notification, should_render, do_full_update, local_palette,
                   dsi_palette, pal_i, drain_i, drain_count, src_buffer, tile_i>>
    /\ UNCHANGED <<waited, exit_waited>>
    /\ UNCHANGED <<globalVars, syncVars, palVars, dirtyVars, perfVars, cpuVars,
                   dispVars, histVars>>
    /\ UNCHANGED palHist

\* (a loop that never tests the flag, while (true))
LoopContinues_Forever(running) == TRUE

\* The loop condition, while (video_task_running).
LoopContinues(running) == running

\* while (video_task_running): enter the wait, or leave the loop and
\* vTaskDelete(NULL).
TaskLoop ==
    /\ vpc = "loop"
    /\ IF LoopContinues(video_task_running) THEN vpc' = "wait" ELSE vpc' = "dead"
    /\ waited' = 0
    /\ UNCHANGED <<notification, should_render, do_full_update, local_palette,
                   dsi_palette, pal_i, drain_i, drain_count, src_buffer, tile_i>>
    /\ UNCHANGED <<since_last_frame, exit_waited>>
    /\ UNCHANGED <<globalVars, syncVars, palVars, dirtyVars, perfVars, cpuVars,
                   dispVars, histVars>>
    /\ UNCHANGED palHist

\* ulTaskNotifyTake(pdTRUE, min_frame_ticks) returns the pending count and
\* clears it.
TaskWakeNotified ==
    /\ vpc = "wait"
    /\ notify_count > 0
    /\ notification' = notify_count
    /\ notify_count' = 0
    /\ vpc' = "woken"
    /\ waited' = 0
    /\ UNCHANGED <<should_render, do_full_update, local_palette,
                   dsi_palette, pal_i, drain_i, drain_count, src_buffer, tile_i>>
    /\ UNCHANGED <<since_last_frame, exit_waited>>
    /\ UNCHANGED <<frame_ready, video_task_handle, video_task_running>>
    /\ UNCHANGED <<globalVars, palVars, dirtyVars, perfVars, cpuVars,
                   dispVars, histVars>>
    /\ UNCHANGED palHist

\* (a wait with no timeout, portMAX_DELAY)
WaitTimedOut_Never(w) == FALSE

\* The timeout of ulTaskNotifyTake(pdTRUE, min_frame_ticks) has expired.
WaitTimedOut(w) == w >= MIN_FRAME_TICKS

\* ulTaskNotifyTake times out after min_frame_ticks and returns 0.
TaskWakeTimeout ==
    /\ vpc = "wait"
    /\ notify_count = 0
    /\ WaitTimedOut(waited)
    /\ notification' = 0
    /\ vpc' = "woken"
    /\ waited' = 0
    /\ UNCHANGED <<should_render, do_full_update, local_palette,
                   dsi_palette, pal_i, drain_i, drain_count, src_buffer, tile_i>>
    /\ UNCHANGED <<since_last_frame, exit_waited>>
    /\ UNCHANGED <<globalVars, syncVars, palVars, dirtyVars, perfVars, cpuVars,
                   dispVars, histVars>>
    /\ UNCHANGED palHist

\* bool should_render = (notification > 0) || frame_ready;
TaskReadReady ==
    /\ vpc = "woken"
    /\ should_render' = ((notification > 0) \/ frame_ready)
    /\ vpc' = "clear_ready"
    /\ UNCHANGED <<notification, do_full_update, local_palette,
                   dsi_palette, pal_i, drain_i, drain_count, src_buffer, tile_i>>
    /\ UNCHANGED <<globalVars, syncVars, palVars, dirtyVars, perfVars, timeVars,
                   cpuVars, dispVars, histVars>>
    /\ UNCHANGED palHist

\* frame_ready = false;
TaskClearReady ==
    /\ vpc = "clear_ready"
    /\ frame_ready' = FALSE
    /\ vpc' = "rate"
    /\ UNCHANGED <<notification, should_render, do_full_update, local_palette,
                   dsi_palette, pal_i, drain_i, drain_count, src_buffer, tile_i>>
    /\ UNCHANGED <<video_task_handle, video_task_running, notify_count>>
    /\ UNCHANGED <<globalVars, palVars, dirtyVars, perfVars, timeVars,
                   cpuVars, dispVars, histVars>>
    /\ UNCHANGED palHist

\* (a task without the frame-rate test)
RateLimited_Never(render, elapsed) == FALSE

\* if (should_render && elapsed < min_frame_ticks) continue;
RateLimited(render, elapsed) == render /\ elapsed < MIN_FRAME_TICKS

\* now = xTaskGetTickCount(); elapsed = now - last_frame_ticks; the step
\* is abandoned, or goes on to the palette snapshot.  A step that goes on
\* ends with last_frame_ticks = now, and nothing reads last_frame_ticks in
\* between: its age is counted from this read of the tick count.
TaskRate ==
    /\ vpc = "rate"
    /\ IF RateLimited(should_render, since_last_frame)
       THEN /\ vpc' = "loop"
            /\ notification' = 0
            /\ should_render' = FALSE
            /\ UNCHANGED since_last_frame
       ELSE /\ vpc' = "pal_enter"
            /\ since_last_frame' = 0
            /\ UNCHANGED <<notification, should_render>>
    /\ pal_owed' = (~RateLimited(should_render, since_last_frame) /\ pal_returned)
    /\ pal_returned' = (RateLimited(should_render, since_last_frame) /\ pal_returned)
    /\ UNCHANGED pal_tables
    /\ UNCHANGED <<do_full_update, local_palette,
                   dsi_palette, pal_i, drain_i, drain_count, src_buffer, tile_i>>
    /\ UNCHANGED <<waited, exit_waited>>
    /\ UNCHANGED <<globalVars, syncVars, palVars, dirtyVars, perfVars,
                   cpuVars, dispVars, histVars>>

\* (a critical section that does not wait for the lock)
CanEnterCritical_Always(lock) == TRUE

\* portENTER_CRITICAL(&frame_spinlock) proceeds when no other core holds it.
CanEnterCritical(lock) == lock = "free"

\* portENTER_CRITICAL before memcpy(local_palette, palette_rgb565, ...)
TaskPalEnter ==
    /\ vpc = "pal_enter"
    /\ CanEnterCritical(frame_spinlock)
    /\ frame_spinlock' = "video"
    /\ pal_i' = 0
    /\ vpc' = "pal_copy"
    /\ UNCHANGED palette_rgb565
    /\ UNCHANGED <<notification, should_render, do_full_update, local_palette,
                   dsi_palette, drain_i, drain_count, src_buffer, tile_i>>
    /\ UNCHANGED <<globalVars, syncVars, dirtyVars, perfVars, timeVars,
                   cpuVars, dispVars, histVars>>
    /\ UNCHANGED palHist

\* memcpy(local_palette, palette_rgb565, 256 * sizeof(uint16)), an entry a step
TaskPalCopy ==
    /\ vpc = "pal_copy"
    /\ local_palette' = [local_palette EXCEPT ![pal_i] = palette_rgb565[pal_i]]
    /\ pal_i' = pal_i + 1
    /\ vpc' = IF pal_i + 1 < PalModelled THEN "pal_copy" ELSE "pal_exit"
    /\ UNCHANGED <<notification, should_render, do_full_update,
                   dsi_palette, drain_i, drain_count, src_buffer, tile_i>>
    /\ UNCHANGED <<globalVars, syncVars, palVars, dirtyVars, perfVars, timeVars,
                   cpuVars, dispVars, histVars>>
    /\ UNCHANGED palHist

\* portEXIT_CRITICAL(&frame_spinlock)
TaskPalExit ==
    /\ vpc = "pal_exit"
    /\ frame_spinlock' = "free"
    /\ pal_i' = 0
    /\ vpc' = "read_force"
    /\ UNCHANGED palette_rgb565
    /\ UNCHANGED <<notification, should_render, do_full_update, local_palette,
                   dsi_palette, drain_i, drain_count, src_buffer, tile_i>>
    /\ UNCHANGED <<globalVars, syncVars, dirtyVars, perfVars, timeVars,
                   cpuVars, dispVars, histVars>>
    /\ UNCHANGED palHist

\* bool do_full_update = force_full_update; then, when the flag is clear,
\* the drain if write-time tracking is on and the frame comparison if not.
TaskReadForce ==
    /\ vpc = "read_force"
    /\ do_full_update' = force_full_update
    /\ vpc' = IF force_full_update THEN "render"
              ELSE IF use_write_dirty_tracking THEN "drain" ELSE "snapshot"
    /\ drain_i' = 0
    /\ drain_count' = 0
    /\ mid_drain_marks' = {}
    /\ UNCHANGED <<notification, should_render, local_palette,
                   dsi_palette, pal_i, src_buffer, tile_i>>
    /\ UNCHANGED <<unshown, fresh, unreported, fault>>
    /\ UNCHANGED <<globalVars, syncVars, palVars, dirtyVars, perfVars, timeVars,
                   cpuVars, dispVars>>
    /\ UNCHANGED palHist

\* __atomic_exchange_n(&write_dirty_tiles[i], 0, ...): the value returned
ExchangeResult(word) == word
\* (a plain read that leaves the word as it was)
ExchangeStored_NoClear(word) == word
\* and the value left in the word.
ExchangeStored(word) == {}

\* One iteration of collectWriteDirtyTiles' loop: exchange word i with zero,
\* store the bits in dirty_tiles[i], add their popcount.
TaskDrain ==
    /\ vpc = "drain"
    /\ LET bits == ExchangeResult(write_dirty_tiles[drain_i])
           reported == {t \in 0..(TOTAL_TILES - 1) :
                          WordOf(t) = drain_i /\ BitOf(t) \in bits}
       IN  /\ write_dirty_tiles' =
                [write_dirty_tiles EXCEPT ![drain_i] = ExchangeStored(@)]
           /\ dirty_tiles' = [dirty_tiles EXCEPT ![drain_i] = bits]
           /\ drain_count' = drain_count + PopCountLoop(bits)
           /\ unreported' = unreported \ reported
    /\ drain_i' = drain_i + 1
    /\ vpc' = IF drain_i + 1 < BITMAP_WORDS THEN "drain" ELSE "threshold"
    /\ UNCHANGED <<force_full_update, dirty_tile_count>>
    /\ UNCHANGED <<notification, should_render, do_full_update, local_palette,
                   dsi_palette, pal_i, src_buffer, tile_i>>
    /\ UNCHANGED <<unshown, fresh, mid_drain_marks, fault>>
    /\ UNCHANGED <<globalVars, syncVars, palVars, perfVars, timeVars,
                   cpuVars, dispVars>>
    /\ UNCHANGED palHist

OffsetsInTile(t) == {o \in DOMAIN mac_bytes : TileOfOffset(o) = t}

\* takeFrameSnapshot(): memcpy(snapshot_buffer, mac_frame_buffer, size).
TaskSnapshot ==
    /\ vpc = "snapshot"
    /\ LET outcomes == {Access(mac_frame_buffer, "mac"),
                        Access(snapshot_buffer, "snapshot")}
       IN  /\ fault' = FaultAfter(outcomes)
           /\ snap_bytes' = IF outcomes = {"ok"} THEN mac_bytes ELSE snap_bytes
    /\ vpc' = "detect"
    /\ UNCHANGED <<mac_frame_buffer, snapshot_buffer, compare_buffer, dsi_framebuffer,
                   frame_buffer_size, heap, use_write_dirty_tracking, cmp_bytes,
                   mac_bytes, rendered_bytes, tileVars>>
    /\ UNCHANGED <<notification, should_render, do_full_update, local_palette,
                   dsi_palette, pal_i, drain_i, drain_count, src_buffer, tile_i>>
    /\ UNCHANGED <<unshown, fresh, unreported, mid_drain_marks>>
    /\ UNCHANGED <<syncVars, palVars, dirtyVars, perfVars, timeVars,
                   cpuVars, dispVars>>
    /\ UNCHANGED palHist

\* detectDirtyTiles without its memset: the bits are or-ed into the bitmap
\* the previous pass left.
detectDirtyTiles_NoClear(current, previous) ==
    LET Row(ty) ==
          LET col[tx \in 0..TILES_X] ==
                IF tx = 0 THEN {}
                ELSE col[tx - 1] \cup
                       (LET tile_idx == ty * TILES_X + (tx - 1)
                            is_dirty == \E o \in DOMAIN current :
                                          /\ TileOfOffset(o) = tile_idx
                                          /\ current[o] # previous[o]
                        IN  IF is_dirty THEN {tile_idx} ELSE {})
          IN  col[TILES_X]
        rows[ty \in 0..TILES_Y] ==
          IF ty = 0 THEN {} ELSE rows[ty - 1] \cup Row(ty - 1)
        found == rows[TILES_Y]
    IN  [tiles |-> [w \in DOMAIN ZeroBitmap |->
                      dirty_tiles[w] \cup {BitOf(t) : t \in {u \in found : WordOf(u) = w}}],
         count |-> Cardinality(found)]

\* detectDirtyTiles(current, previous): memset(dirty_tiles, 0), then for ty,
\* tx in loop order compare the tile's rows word by word; a tile with a
\* differing word gets its bit or-ed in and count++.  The model gathers the
\* tiles found dirty (each tile is visited once, so their number is count)
\* and ors their bits into the cleared bitmap.  The result is the bitmap and
\* the returned count.  (The bytes the model does not follow are equal in
\* both buffers.)
detectDirtyTiles(current, previous) ==
    LET Row(ty) ==
          LET col[tx \in 0..TILES_X] ==
                IF tx = 0 THEN {}
                ELSE col[tx - 1] \cup
                       (LET tile_idx == ty * TILES_X + (tx - 1)
                            is_dirty == \E o \in DOMAIN current :
                                          /\ TileOfOffset(o) = tile_idx
                                          /\ current[o] # previous[o]
                        IN  IF is_dirty THEN {tile_idx} ELSE {})
          IN  col[TILES_X]
        rows[ty \in 0..TILES_Y] ==
          IF ty = 0 THEN {} ELSE rows[ty - 1] \cup Row(ty - 1)
        found == rows[TILES_Y]
    IN  [tiles |-> [w \in DOMAIN ZeroBitmap |->
                      ZeroBitmap[w] \cup {BitOf(t) : t \in {u \in found : WordOf(u) = w}}],
         count |-> Cardinality(found)]

\* dirty_tile_count = detectDirtyTiles(snapshot_buffer, compare_buffer); then
\* the threshold test and swapBuffers().
TaskDetect ==
    /\ vpc = "detect"
    /\ LET outcomes == {Access(snapshot_buffer, "snapshot"),
                        Access(compare_buffer, "compare")}
           detected == detectDirtyTiles(snap_bytes, cmp_bytes)
       IN  /\ fault' = FaultAfter(outcomes)
           /\ dirty_tiles' = detected.tiles
           /\ dirty_tile_count' = detected.count
           /\ do_full_update' = ThresholdExceeded(detected.count)
    /\ compare_buffer' = snapshot_buffer
    /\ snapshot_buffer' = compare_buffer
    /\ cmp_bytes' = snap_bytes
    /\ snap_bytes' = cmp_bytes
    /\ vpc' = "render"
    /\ UNCHANGED <<mac_frame_buffer, dsi_framebuffer, frame_buffer_size, heap,
                   use_write_dirty_tracking, mac_bytes, rendered_bytes, tileVars>>
    /\ UNCHANGED <<write_dirty_tiles, force_full_update>>
    /\ UNCHANGED <<notification, should_render, local_palette,
                   dsi_palette, pal_i, drain_i, drain_count, src_buffer, tile_i>>
    /\ UNCHANGED <<unshown, fresh, unreported, mid_drain_marks>>
    /\ UNCHANGED <<syncVars, palVars, perfVars, timeVars, cpuVars, dispVars>>
    /\ UNCHANGED palHist

\* dirty_tile_count = collectWriteDirtyTiles(); the threshold test.
TaskThreshold ==
    /\ vpc = "threshold"
    /\ dirty_tile_count' = drain_count
    /\ do_full_update' = ThresholdExceeded(drain_count)
    /\ drain_i' = 0
    /\ drain_count' = 0
    /\ mid_drain_marks' = {}
    /\ vpc' = "render"
    /\ UNCHANGED <<dirty_tiles, write_dirty_tiles, force_full_update>>
    /\ UNCHANGED <<notification, should_render, local_palette,
                   dsi_palette, pal_i, src_buffer, tile_i>>
    /\ UNCHANGED <<unshown, fresh, unreported, fault>>
    /\ UNCHANGED <<globalVars, syncVars, palVars, perfVars, timeVars,
                   cpuVars, dispVars>>
    /\ UNCHANGED palHist

\* (a branch that decides on the count alone, whatever the forced flag says)
RenderChoice_CountOnly(full, count) ==
    IF count > dirty_threshold THEN "full" ELSE IF count > 0 THEN "partial" ELSE "skip"
\* (a branch that treats a count of zero as a partial update)
RenderChoice_NoSkip(full, count) == IF full THEN "full" ELSE "partial"
\* The branch at "RENDER": which of the three the step does.
RenderChoice(full, count) ==
    IF full THEN "full" ELSE IF count > 0 THEN "partial" ELSE "skip"

\* if (do_full_update) ... else if (dirty_tile_count > 0) ... else
\* perf_skip_count++.  The partial branch evaluates mac_frame_buffer as the
\* argument of renderAndPushDirtyTiles.
TaskRender ==
    /\ vpc = "render"
    /\ LET choice == RenderChoice(do_full_update, dirty_tile_count)
       IN  /\ step_kind' = choice
           /\ vpc' = CASE choice = "full" -> "full_check"
                       [] choice = "partial" -> "tile_snap"
                       [] OTHER -> "finish"
           /\ perf_skip_count' =
                IF choice = "skip" THEN perf_skip_count + 1 ELSE perf_skip_count
           /\ src_buffer' = IF choice = "partial" THEN mac_frame_buffer ELSE src_buffer
    /\ tile_i' = 0
    /\ pushed' = <<>>
    /\ UNCHANGED partial_renders
    /\ UNCHANGED <<perf_frame_count, perf_partial_count, perf_full_count>>
    /\ UNCHANGED <<notification, should_render, do_full_update, local_palette,
                   dsi_palette, pal_i, drain_i, drain_count>>
    /\ UNCHANGED <<globalVars, syncVars, palVars, dirtyVars, timeVars,
                   cpuVars, histVars>>
    /\ UNCHANGED palHist

\* (a loop that renders every tile, dirty or not)
NextDirtyTile_NoSkip(from) == IF from < TOTAL_TILES THEN from ELSE TOTAL_TILES

\* The loop of renderAndPushDirtyTiles skips tiles that are not dirty: the
\* first dirty tile at or after index from, TOTAL_TILES when there is none.
NextDirtyTile(from) ==
    LET rest == {t \in from..(TOTAL_TILES - 1) : isTileDirty(dirty_tiles, t)}
    IN  IF rest = {} THEN TOTAL_TILES
        ELSE CHOOSE t \in rest : \A u \in rest : t <= u

\* renderFrameToDSI(mac_frame_buffer): if (!src_buffer || !dsi_framebuffer) return;
TaskFullCheck ==
    /\ vpc = "full_check"
    /\ src_buffer' = mac_frame_buffer
    /\ vpc' = IF mac_frame_buffer = "NULL" \/ dsi_framebuffer = "NULL"
              THEN "full_push" ELSE "full_pal_enter"
    /\ UNCHANGED <<notification, should_render, do_full_update, local_palette,
                   dsi_palette, pal_i, drain_i, drain_count, tile_i>>
    /\ UNCHANGED <<globalVars, syncVars, palVars, dirtyVars, perfVars, timeVars,
                   cpuVars, dispVars, histVars>>
    /\ UNCHANGED palHist

\* renderFrameToDSI: portENTER_CRITICAL before its own palette copy
TaskFullPalEnter ==
    /\ vpc = "full_pal_enter"
    /\ CanEnterCritical(frame_spinlock)
    /\ frame_spinlock' = "video"
    /\ pal_i' = 0
    /\ vpc' = "full_pal_copy"
    /\ UNCHANGED palette_rgb565
    /\ UNCHANGED <<notification, should_render, do_full_update, local_palette,
                   dsi_palette, drain_i, drain_count, src_buffer, tile_i>>
    /\ UNCHANGED <<globalVars, syncVars, dirtyVars, perfVars, timeVars,
                   cpuVars, dispVars, histVars>>
    /\ UNCHANGED palHist

\* renderFrameToDSI: memcpy(local_palette, palette_rgb565, ...), an entry a step
TaskFullPalCopy ==
    /\ vpc = "full_pal_copy"
    /\ dsi_palette' = [dsi_palette EXCEPT ![pal_i] = palette_rgb565[pal_i]]
    /\ pal_i' = pal_i + 1
    /\ vpc' = IF pal_i + 1 < PalModelled THEN "full_pal_copy" ELSE "full_pal_exit"
    /\ UNCHANGED <<notification, should_render, do_full_update, local_palette,
                   drain_i, drain_count, src_buffer, tile_i>>
    /\ UNCHANGED <<globalVars, syncVars, palVars, dirtyVars, perfVars, timeVars,
                   cpuVars, dispVars, histVars>>
    /\ UNCHANGED palHist

\* renderFrameToDSI: portEXIT_CRITICAL
TaskFullPalExit ==
    /\ vpc = "full_pal_exit"
    /\ frame_spinlock' = "free"
    /\ pal_i' = 0
    /\ vpc' = "full_read"
    /\ UNCHANGED palette_rgb565
    /\ UNCHANGED <<notification, should_render, do_full_update, local_palette,
                   dsi_palette, drain_i, drain_count, src_buffer, tile_i>>
    /\ UNCHANGED <<globalVars, syncVars, dirtyVars, perfVars, timeVars,
                   cpuVars, dispVars, histVars>>
    /\ UNCHANGED palHist

\* local_palette[i]; the entries past the modelled prefix hold VideoInit's
\* default, which no program of the model changes.
PaletteEntry(palette, i) ==
    IF i \in DOMAIN palette THEN palette[i]
    ELSE rgb888_to_rgb565(255 - i, 255 - i, 255 - i)

\* (a render that writes each converted row once, without the second row)
DsiWrites_OneRow(offset) ==
    LET y == offset \div MAC_SCREEN_WIDTH
        x == offset % MAC_SCREEN_WIDTH
        dst_row0 == (y * 2) * DISPLAY_WIDTH + (x \div 4) * 8
    IN  {dst_row0 + 2 * (x % 4), dst_row0 + 2 * (x % 4) + 1}

\* The indexes of dsi_framebuffer that renderFrameToDSI writes for the source
\* pixel at an offset: the row pointers start at (y * 2) * DISPLAY_WIDTH and
\* one row below, advance by 8 for each group of 4 source pixels, and the
\* pixel in lane k of its group goes to [2k] and [2k + 1] of both.
DsiWrites(offset) ==
    LET y == offset \div MAC_SCREEN_WIDTH
        x == offset % MAC_SCREEN_WIDTH
        dst_row0 == (y * 2) * DISPLAY_WIDTH + (x \div 4) * 8
        dst_row1 == dst_row0 + DISPLAY_WIDTH
    IN  {dst_row0 + 2 * (x % 4), dst_row0 + 2 * (x % 4) + 1,
         dst_row1 + 2 * (x % 4), dst_row1 + 2 * (x % 4) + 1}

\* renderFrameToDSI: every write it makes for the source bytes src.
renderFrameToDSI(src, palette) ==
    UNION {{<<d, PaletteEntry(palette, src[o])>> : d \in DsiWrites(o)} : o \in DOMAIN src}

\* renderFrameToDSI: the row loop reads src_buffer and writes dsi_framebuffer.
TaskFullRead ==
    /\ vpc = "full_read"
    /\ LET outcomes == {Access(src_buffer, "mac"), Access(dsi_framebuffer, "dsi")}
       IN  /\ fault' = FaultAfter(outcomes)
           /\ fresh' = IF outcomes = {"ok"} THEN TrackedOffsets ELSE {}
    /\ mac_bytes' = SourceAfterCopy(mac_bytes, TrackedOffsets)
    /\ rendered_bytes' =
         IF Access(src_buffer, "mac") = "ok" /\ Access(dsi_framebuffer, "dsi") = "ok"
         THEN mac_bytes ELSE rendered_bytes
    /\ dsi_pixels' =
         IF Access(src_buffer, "mac") = "ok" /\ Access(dsi_framebuffer, "dsi") = "ok"
         THEN renderFrameToDSI(mac_bytes, dsi_palette) ELSE dsi_pixels
    /\ vpc' = "full_push"
    /\ UNCHANGED <<notification, should_render, do_full_update, local_palette,
                   dsi_palette, pal_i, drain_i, drain_count, src_buffer, tile_i>>
    /\ UNCHANGED <<unshown, unreported, mid_drain_marks>>
    /\ UNCHANGED <<ptrVars, tile_snapshot, tile_buffer, tile_pixels, syncVars, palVars,
                   dirtyVars, perfVars, timeVars,
                   cpuVars, dispVars>>
    /\ UNCHANGED palHist

\* pushFramebufferToDisplay: if (!dsi_framebuffer) return; setAddrWindow(0, 0,
\* DISPLAY_WIDTH, DISPLAY_HEIGHT); writePixels(dsi_framebuffer, ...)
TaskFullPush ==
    /\ vpc = "full_push"
    /\ IF dsi_framebuffer = "NULL"
       THEN UNCHANGED <<pushed, unshown, fault>>
       ELSE LET outcome == Access(dsi_framebuffer, "dsi")
            IN  /\ pushed' = Append(pushed, FullWindow)
                /\ fault' = FaultAfter({outcome})
                /\ unshown' = IF outcome = "ok" THEN unshown \ fresh ELSE unshown
    /\ fresh' = {}
    /\ dsi_palette' = UninitPalette
    /\ vpc' = "full_clear"
    /\ UNCHANGED <<step_kind, partial_renders>>
    /\ UNCHANGED <<notification, should_render, do_full_update, local_palette,
                   pal_i, drain_i, drain_count, src_buffer, tile_i>>
    /\ UNCHANGED <<unreported, mid_drain_marks>>
    /\ dsi_pixels' = {}
    /\ UNCHANGED <<ptrVars, mac_bytes, rendered_bytes, tile_snapshot, tile_buffer,
                   tile_pixels>>
    /\ UNCHANGED <<syncVars, palVars, dirtyVars, perfVars, timeVars,
                   cpuVars>>
    /\ UNCHANGED palHist

\* force_full_update = false; perf_full_count++;
TaskFullClear ==
    /\ vpc = "full_clear"
    /\ force_full_update' = FALSE
    /\ perf_full_count' = perf_full_count + 1
    /\ vpc' = "finish"
    /\ UNCHANGED <<dirty_tiles, write_dirty_tiles, dirty_tile_count>>
    /\ UNCHANGED <<perf_frame_count, perf_partial_count, perf_skip_count>>
    /\ UNCHANGED <<notification, should_render, do_full_update, local_palette,
                   dsi_palette, pal_i, drain_i, drain_count, src_buffer, tile_i>>
    /\ UNCHANGED <<globalVars, syncVars, palVars, timeVars,
                   cpuVars, dispVars, histVars>>
    /\ UNCHANGED palHist

\* renderAndPushDirtyTiles: the next dirty tile is copied by snapshotTile
\* from src_buffer; after the last one, endWrite and perf_partial_count++.
TaskTileSnap ==
    /\ vpc = "tile_snap"
    /\ LET t == NextDirtyTile(tile_i)
       IN  IF t = TOTAL_TILES
           THEN /\ perf_partial_count' = perf_partial_count + 1
                /\ partial_renders' = partial_renders + 1
                /\ vpc' = "finish"
                /\ tile_i' = 0
                /\ UNCHANGED <<fresh, fault, mac_bytes, rendered_bytes, tile_snapshot>>
           ELSE LET outcome == Access(src_buffer, "mac")
                IN  /\ fault' = FaultAfter({outcome})
                    /\ fresh' = IF outcome = "ok" THEN OffsetsInTile(t) ELSE {}
                    /\ mac_bytes' = SourceAfterCopy(mac_bytes, OffsetsInTile(t))
                    /\ rendered_bytes' =
                         [o \in DOMAIN rendered_bytes |->
                            IF outcome = "ok" /\ o \in OffsetsInTile(t)
                            THEN mac_bytes[o] ELSE rendered_bytes[o]]
                    /\ tile_snapshot' =
                         IF outcome = "ok"
                         THEN [o \in DOMAIN mac_bytes |->
                                 IF o \in OffsetsInTile(t) THEN mac_bytes[o] ELSE -1]
                         ELSE tile_snapshot
                    /\ tile_i' = t
                    /\ vpc' = "tile_push"
                    /\ UNCHANGED <<perf_partial_count, partial_renders>>
    /\ UNCHANGED <<perf_frame_count, perf_full_count, perf_skip_count>>
    /\ UNCHANGED <<notification, should_render, do_full_update, local_palette,
                   dsi_palette, pal_i, drain_i, drain_count, src_buffer>>
    /\ UNCHANGED <<pushed, step_kind>>
    /\ UNCHANGED <<unshown, unreported, mid_drain_marks>>
    /\ UNCHANGED <<tile_buffer, dsi_pixels, tile_pixels>>
    /\ UNCHANGED <<ptrVars, syncVars, palVars, dirtyVars, timeVars, cpuVars>>
    /\ UNCHANGED palHist

\* renderTileFromSnapshot, then setAddrWindow(tx * 80, ty * 80, 80, 80) and
\* writePixels(tile_buffer, 80 * 80) for tile tx = tile_i % 16, ty = tile_i / 16
\* (a tile render whose second row starts one source row, not one block row,
\* below the first)
TileWrites_ShortRow(offset, tile_idx) ==
    LET tx == tile_idx % TILES_X
        ty == tile_idx \div TILES_X
        row == (offset \div MAC_SCREEN_WIDTH) - ty * TILE_HEIGHT
        col == (offset % MAC_SCREEN_WIDTH) - tx * TILE_WIDTH
        s == row * TILE_WIDTH + col
        dst_row0 == (s \div TILE_WIDTH) * (TILE_WIDTH * PIXEL_SCALE * 2)
                      + ((s % TILE_WIDTH) \div 4) * 8
        dst_row1 == dst_row0 + TILE_WIDTH
        lane == (s % TILE_WIDTH) % 4
    IN  {(ty * (TILE_HEIGHT * PIXEL_SCALE) + (b \div (TILE_WIDTH * PIXEL_SCALE))) * DISPLAY_WIDTH
           + tx * (TILE_WIDTH * PIXEL_SCALE) + (b % (TILE_WIDTH * PIXEL_SCALE)) :
         b \in {dst_row0 + 2 * lane, dst_row0 + 2 * lane + 1,
                dst_row1 + 2 * lane, dst_row1 + 2 * lane + 1}}

\* Where the pixel of a source offset of tile tile_idx is shown by a partial
\* update.  snapshotTile puts the byte at row * 40 + col of tile_snapshot;
\* renderTileFromSnapshot writes it to [2k] and [2k + 1] of the two block rows
\* of its row, which start at row * 160 and 80 further and advance by 8 for
\* each group of 4; setAddrWindow(tx * 80, ty * 80, 80, 80) and writePixels
\* put entry b of the block at column b mod 80, row b div 80 of the window.
TileWrites(offset, tile_idx) ==
    LET tx == tile_idx % TILES_X
        ty == tile_idx \div TILES_X
        row == (offset \div MAC_SCREEN_WIDTH) - ty * TILE_HEIGHT
        col == (offset % MAC_SCREEN_WIDTH) - tx * TILE_WIDTH
        s == row * TILE_WIDTH + col
        dst_row0 == (s \div TILE_WIDTH) * (TILE_WIDTH * PIXEL_SCALE * 2)
                      + ((s % TILE_WIDTH) \div 4) * 8
        dst_row1 == dst_row0 + TILE_WIDTH * PIXEL_SCALE
        lane == (s % TILE_WIDTH) % 4
    IN  {(ty * (TILE_HEIGHT * PIXEL_SCALE) + (b \div (TILE_WIDTH * PIXEL_SCALE))) * DISPLAY_WIDTH
           + tx * (TILE_WIDTH * PIXEL_SCALE) + (b % (TILE_WIDTH * PIXEL_SCALE)) :
         b \in {dst_row0 + 2 * lane, dst_row0 + 2 * lane + 1,
                dst_row1 + 2 * lane, dst_row1 + 2 * lane + 1}}

\* (a render that reads the live frame buffer instead of the tile copy)
renderTileFromSnapshot_Live(snapshot, palette) ==
    [o \in DOMAIN snapshot |->
       IF snapshot[o] = -1 THEN -1 ELSE PaletteEntry(palette, mac_bytes[o])]

\* renderTileFromSnapshot(tile_snapshot, local_palette, tile_buffer): every
\* pixel of the block is the palette entry of the byte of the copy.
renderTileFromSnapshot(snapshot, palette) ==
    [o \in DOMAIN snapshot |->
       IF snapshot[o] = -1 THEN -1 ELSE PaletteEntry(palette, snapshot[o])]

TaskTilePush ==
    /\ vpc = "tile_push"
    /\ pushed' = Append(pushed, TileWindow(tile_i % TILES_X, tile_i \div TILES_X))
    /\ unshown' = unshown \ fresh
    /\ fresh' = {}
    /\ tile_i' = tile_i + 1
    /\ vpc' = "tile_snap"
    /\ UNCHANGED <<step_kind, partial_renders>>
    /\ UNCHANGED <<notification, should_render, do_full_update, local_palette,
                   dsi_palette, pal_i, drain_i, drain_count, src_buffer>>
    /\ UNCHANGED <<unreported, mid_drain_marks, fault>>
    /\ tile_buffer' = renderTileFromSnapshot(tile_snapshot, local_palette)
    /\ tile_pixels' =
         UNION {{<<d, tile_buffer'[o]>> : d \in TileWrites(o, tile_i)} :
                  o \in {p \in DOMAIN tile_snapshot : tile_snapshot[p] # -1}}
    /\ UNCHANGED <<ptrVars, mac_bytes, rendered_bytes, tile_snapshot, dsi_pixels>>
    /\ UNCHANGED <<syncVars, palVars, dirtyVars, perfVars, timeVars,
                   cpuVars>>
    /\ UNCHANGED palHist

\* perf_frame_count++; last_frame_ticks = now (the age since that tick is
\* kept from TaskRate on); reportVideoPerfStats() resets the counters when
\* its 5 s interval has passed, which happens before PerfCap frames have
\* been counted.
TaskFinish ==
    /\ vpc = "finish"
    /\ \E due \in BOOLEAN :
         /\ (perf_frame_count + 1 >= PerfCap) => due
         /\ IF due
            THEN /\ perf_frame_count' = 0 /\ perf_partial_count' = 0
                 /\ perf_full_count' = 0 /\ perf_skip_count' = 0
            ELSE /\ perf_frame_count' = perf_frame_count + 1
                 /\ UNCHANGED <<perf_partial_count, perf_full_count, perf_skip_count>>
    /\ notification' = 0
    /\ should_render' = FALSE
    /\ do_full_update' = FALSE
    /\ src_buffer' = "NULL"
    /\ step_kind' = "none"
    /\ pushed' = <<>>
    /\ UNCHANGED partial_renders
    /\ vpc' = "loop"
    /\ pal_owed' = FALSE
    /\ UNCHANGED <<pal_tables, pal_returned>>
    /\ UNCHANGED <<local_palette, dsi_palette, pal_i, drain_i, drain_count, tile_i>>
    /\ UNCHANGED timeVars
    /\ UNCHANGED <<globalVars, syncVars, palVars, dirtyVars, cpuVars, histVars>>

\* The positions of a render step that was not abandoned.
StepPcs == {"pal_enter", "pal_copy", "pal_exit", "read_force", "drain", "threshold",
            "render", "full_check", "full_pal_enter", "full_pal_copy",
            "full_pal_exit", "full_read", "full_push", "full_clear", "tile_snap",
            "tile_push", "finish"}

\* A render step, from the wake to the end of the loop body,
TaskStepNext ==
    \/ TaskReadReady \/ TaskClearReady \/ TaskRate
    \/ TaskPalEnter \/ TaskPalCopy \/ TaskPalExit \/ TaskReadForce
    \/ TaskDrain \/ TaskThreshold \/ TaskRender
    \/ TaskFullCheck \/ TaskFullPalEnter \/ TaskFullPalCopy \/ TaskFullPalExit
    \/ TaskFullRead \/ TaskFullPush \/ TaskFullClear
    \/ TaskTileSnap \/ TaskTilePush \/ TaskFinish

\* the task inside its loop,
TaskLoopNext == TaskLoop \/ TaskWakeNotified \/ TaskWakeTimeout \/ TaskStepNext

\* and from its creation on.
TaskNext == TaskStart \/ TaskLoopNext

\* ------------------------------------------------------------------------
\* Time
\* ------------------------------------------------------------------------
\* The tick count advances by TickStep: every age that is being kept grows,
\* up to the value it is compared with.
Tick ==
    /\ waited' = IF vpc = "wait" THEN Min(waited + TickStep, MIN_FRAME_TICKS) ELSE waited
    /\ since_last_frame' = IF vpc \in {"none", "start", "dead"} THEN since_last_frame
                           ELSE Min(since_last_frame + TickStep, MIN_FRAME_TICKS)
    /\ exit_waited' = IF cpc = "exit_delay"
                      THEN Min(exit_waited + TickStep, STOP_DELAY_TICKS) ELSE exit_waited
    /\ timeVars' # timeVars
    /\ UNCHANGED <<globalVars, syncVars, palVars, dirtyVars, perfVars, taskVars,
                   cpuVars, dispVars, histVars>>
    /\ UNCHANGED palHist

\* ------------------------------------------------------------------------
\* The CPU thread: frame buffer writes, marks and frame signals
\* ------------------------------------------------------------------------
\* The operations of a CPU program.
Put8(o) == [op |-> "put8", a |-> o, b |-> 1]
\* A store of value v at offset o.
Put8Value(o, v) == [op |-> "put8", a |-> o, b |-> 1, v |-> v]
PutN(o, n) == [op |-> "putN", a |-> o, b |-> n]
Signal == [op |-> "signal", a |-> 0, b |-> 0]
GetFrameBuffer == [op |-> "get_buffer", a |-> 0, b |-> 0]
GetFrameBufferSize == [op |-> "get_size", a |-> 0, b |-> 0]

\* All programs of at most n operations over the alphabet ops.
Programs(ops, n) == UNION {[1..k -> ops] : k \in 0..n}

\* A uint32 is kept as the integer of -2^31 .. 2^31-1 that is congruent to
\* it modulo 2^32, so that + and - on values of the model are the uint32
\* operations; this is the uint32 comparison a < b.
ULt(a, b) == IF (a < 0) = (b < 0) THEN a < b ELSE b < 0

\* (a marking without the test of the offset against the buffer size)
MarkPasses_NoBound(offset) == use_write_dirty_tracking

\* A marking that returns early for the offsets of the last pixel row.
MarkPasses_SkipsLastRow(offset) ==
    use_write_dirty_tracking /\ offset < frame_buffer_size - MAC_SCREEN_WIDTH

\* VideoMarkDirtyOffset(offset): whether the two early returns are passed.
MarkPasses(offset) == use_write_dirty_tracking /\ ULt(offset, frame_buffer_size)

\* VideoMarkDirtyOffset(offset): the bitmap after the atomic OR.
MarkedBitmap(bitmap, offset) ==
    IF MarkPasses(offset)
    THEN [bitmap EXCEPT ![WordOf(TileOfOffset(offset))] = @ \cup {BitOf(TileOfOffset(offset))}]
    ELSE bitmap

\* VideoMarkDirtyRange: size after "if (offset + size > frame_buffer_size)
\* size = frame_buffer_size - offset;"
ClampedSize(offset, size) ==
    IF ULt(frame_buffer_size, offset + size) THEN frame_buffer_size - offset ELSE size

\* (a mark made under frame_spinlock)
AtomicOrProceeds_UnderLock(lock) == lock = "free"

\* __atomic_or_fetch on a word of write_dirty_tiles is one lock-free
\* read-modify-write: it proceeds whoever holds frame_spinlock.
AtomicOrProceeds(lock) == TRUE

\* The history of a mark of offset: its tile is unreported, and marked
\* during the drain when the drain has already exchanged a word and the
\* task has not yet gone on from the drain's result.
MarkHistory(offset) ==
    IF MarkPasses(offset)
    THEN /\ unreported' = unreported \cup {TileOfOffset(offset)}
         /\ mid_drain_marks' = IF (vpc = "drain" /\ drain_i > 0) \/ vpc = "threshold"
                               THEN mid_drain_marks \cup {TileOfOffset(offset)}
                               ELSE mid_drain_marks
    ELSE UNCHANGED <<unreported, mid_drain_marks>>

\* The store of a one-byte put into the frame buffer at offset a.
CpuPut8 ==
    /\ cpc = "idle"
    /\ script # <<>>
    /\ Head(script).op = "put8"
    /\ cur' = Head(script)
    /\ script' = Tail(script)
    /\ unshown' = unshown \cup {Head(script).a}
    /\ fresh' = fresh \ {Head(script).a}
    /\ mac_bytes' = StoredFrame(mac_bytes, {Head(script).a},
                                IF "v" \in DOMAIN Head(script) THEN Head(script).v ELSE 1)
    /\ UNCHANGED <<rendered_bytes, tileVars>>
    /\ cpc' = "mark_offset"
    /\ UNCHANGED init_result
    /\ UNCHANGED <<unreported, mid_drain_marks, fault>>
    /\ UNCHANGED <<ptrVars, syncVars, palVars, dirtyVars, perfVars, taskVars,
                   timeVars, dispVars>>
    /\ UNCHANGED palHist

\* VideoMarkDirtyOffset(a) after the store.
CpuMarkOffset ==
    /\ cpc = "mark_offset"
    /\ AtomicOrProceeds(frame_spinlock)
    /\ write_dirty_tiles' = MarkedBitmap(write_dirty_tiles, cur.a)
    /\ MarkHistory(cur.a)
    /\ cur' = NoOp
    /\ cpc' = "idle"
    /\ UNCHANGED <<script, init_result>>
    /\ UNCHANGED <<dirty_tiles, force_full_update, dirty_tile_count>>
    /\ UNCHANGED <<unshown, fresh, fault>>
    /\ UNCHANGED <<globalVars, syncVars, palVars, perfVars, taskVars,
                   timeVars, dispVars>>
    /\ UNCHANGED palHist

\* The store of a b-byte put at offsets a .. a+b-1 (its first and last byte
\* are followed).
CpuPutN ==
    /\ cpc = "idle"
    /\ script # <<>>
    /\ Head(script).op = "putN"
    /\ cur' = Head(script)
    /\ script' = Tail(script)
    /\ LET written == {Head(script).a}
       IN  /\ unshown' = unshown \cup (written \cap TrackedOffsets)
           /\ fresh' = fresh \ written
           /\ mac_bytes' = StoredFrame(mac_bytes, written, 1)
           /\ UNCHANGED <<rendered_bytes, tileVars>>
    /\ cpc' = "range_store"
    /\ UNCHANGED init_result
    /\ UNCHANGED <<unreported, mid_drain_marks, fault>>
    /\ UNCHANGED <<ptrVars, syncVars, palVars, dirtyVars, perfVars, taskVars,
                   timeVars, dispVars>>
    /\ UNCHANGED palHist

\* The rest of the multi-byte store, up to its last byte: the bytes of one
\* write reach the buffer one after another, with no lock held, so the render
\* task can read the buffer between them.
CpuPutNRest ==
    /\ cpc = "range_store"
    /\ LET written == {cur.a + cur.b - 1}
       IN  /\ unshown' = unshown \cup (written \cap TrackedOffsets)
           /\ fresh' = fresh \ written
           /\ mac_bytes' = StoredFrame(mac_bytes, written, 1)
           /\ UNCHANGED <<rendered_bytes, tileVars>>
    /\ cpc' = "range_first"
    /\ UNCHANGED <<cur, script, init_result>>
    /\ UNCHANGED <<unreported, mid_drain_marks, fault>>
    /\ UNCHANGED <<ptrVars, syncVars, palVars, dirtyVars, perfVars, taskVars,
                   timeVars, dispVars>>
    /\ UNCHANGED palHist

\* VideoMarkDirtyRange(a, b): the early returns, the clamp, and the mark of
\* the start tile.
CpuRangeFirst ==
    /\ cpc = "range_first"
    /\ AtomicOrProceeds(frame_spinlock)
    /\ IF MarkPasses(cur.a)
       THEN /\ write_dirty_tiles' = MarkedBitmap(write_dirty_tiles, cur.a)
            /\ MarkHistory(cur.a)
            /\ cur' = [cur EXCEPT !.b = ClampedSize(cur.a, cur.b)]
            /\ cpc' = IF ULt(1, ClampedSize(cur.a, cur.b)) THEN "range_last" ELSE "idle"
       ELSE /\ UNCHANGED <<write_dirty_tiles, unreported, mid_drain_marks>>
            /\ cur' = NoOp
            /\ cpc' = "idle"
    /\ UNCHANGED <<script, init_result>>
    /\ UNCHANGED <<dirty_tiles, force_full_update, dirty_tile_count>>
    /\ UNCHANGED <<unshown, fresh, fault>>
    /\ UNCHANGED <<globalVars, syncVars, palVars, perfVars, taskVars,
                   timeVars, dispVars>>
    /\ UNCHANGED palHist

\* VideoMarkDirtyRange: if (size > 1) VideoMarkDirtyOffset(offset + size - 1)
CpuRangeLast ==
    /\ cpc = "range_last"
    /\ AtomicOrProceeds(frame_spinlock)
    /\ write_dirty_tiles' = MarkedBitmap(write_dirty_tiles, cur.a + cur.b - 1)
    /\ MarkHistory(cur.a + cur.b - 1)
    /\ cur' = NoOp
    /\ cpc' = "idle"
    /\ UNCHANGED <<script, init_result>>
    /\ UNCHANGED <<dirty_tiles, force_full_update, dirty_tile_count>>
    /\ UNCHANGED <<unshown, fresh, fault>>
    /\ UNCHANGED <<globalVars, syncVars, palVars, perfVars, taskVars,
                   timeVars, dispVars>>
    /\ UNCHANGED palHist

\* VideoSignalFrameReady: frame_ready = true;
CpuSignal ==
    /\ cpc = "idle"
    /\ script # <<>>
    /\ Head(script).op = "signal"
    /\ cur' = Head(script)
    /\ script' = Tail(script)
    /\ frame_ready' = TRUE
    /\ cpc' = "signal_check"
    /\ UNCHANGED init_result
    /\ UNCHANGED <<video_task_handle, video_task_running, notify_count>>
    /\ UNCHANGED <<globalVars, palVars, dirtyVars, perfVars, taskVars,
                   timeVars, dispVars, histVars>>
    /\ UNCHANGED palHist

\* VideoSignalFrameReady: if (video_task_handle != NULL)
CpuSignalCheck ==
    /\ cpc = "signal_check"
    /\ IF video_task_handle # "NULL"
       THEN /\ cpc' = "signal_give" /\ UNCHANGED cur
       ELSE /\ cpc' = "idle" /\ cur' = NoOp
    /\ UNCHANGED <<script, init_result>>
    /\ UNCHANGED <<globalVars, syncVars, palVars, dirtyVars, perfVars, taskVars,
                   timeVars, dispVars, histVars>>
    /\ UNCHANGED palHist

\* VideoSignalFrameReady: xTaskNotifyGive(video_task_handle) increments the
\* task's notification value.
CpuSignalGive ==
    /\ cpc = "signal_give"
    /\ notify_count' = Min(notify_count + 1, MaxNotify)
    /\ cur' = NoOp
    /\ cpc' = "idle"
    /\ UNCHANGED <<script, init_result>>
    /\ UNCHANGED <<frame_ready, video_task_handle, video_task_running>>
    /\ UNCHANGED <<globalVars, palVars, dirtyVars, perfVars, taskVars,
                   timeVars, dispVars, histVars>>
    /\ UNCHANGED palHist

\* VideoGetFrameBuffer: return mac_frame_buffer; the value returned is kept
\* in cur.ptr.
CpuGetFrameBuffer ==
    /\ cpc = "idle"
    /\ script # <<>>
    /\ Head(script).op = "get_buffer"
    /\ cur' = [op |-> "get_buffer", a |-> 0, b |-> 0, ptr |-> mac_frame_buffer]
    /\ script' = Tail(script)
    /\ UNCHANGED <<cpc, init_result>>
    /\ UNCHANGED <<globalVars, syncVars, palVars, dirtyVars, perfVars, taskVars,
                   timeVars, dispVars, histVars, palHist>>

\* VideoGetFrameBufferSize: return frame_buffer_size; the value returned is
\* kept in cur.size.
CpuGetFrameBufferSize ==
    /\ cpc = "idle"
    /\ script # <<>>
    /\ Head(script).op = "get_size"
    /\ cur' = [op |-> "get_size", a |-> 0, b |-> 0, size |-> frame_buffer_size]
    /\ script' = Tail(script)
    /\ UNCHANGED <<cpc, init_result>>
    /\ UNCHANGED <<globalVars, syncVars, palVars, dirtyVars, perfVars, taskVars,
                   timeVars, dispVars, histVars, palHist>>

\* The frame buffer writes with their marks,
CpuMarkNext ==
    CpuPut8 \/ CpuMarkOffset \/ CpuPutN \/ CpuPutNRest \/ CpuRangeFirst \/ CpuRangeLast

\* and with the frame signals.
CpuWriteNext == CpuMarkNext \/ CpuSignal \/ CpuSignalCheck \/ CpuSignalGive

\* ------------------------------------------------------------------------
\* The CPU thread: ESP32_monitor_desc::set_palette
\* ------------------------------------------------------------------------
\* set_palette(pal, num) with pal[i] = (a, a, a) for every entry i.
\* set_palette(pal, num) with every entry of pal the bytes r, g, b, which
\* field a holds as (r * 256 + g) * 256 + b,
SetPaletteRGB(r, g, b, num) ==
    [op |-> "set_palette", a |-> (r * 256 + g) * 256 + b, b |-> num]

\* and with every entry of pal one level of gray.
SetPalette(gray, num) == SetPaletteRGB(gray, gray, gray, num)

\* portENTER_CRITICAL(&frame_spinlock) at the head of set_palette
CpuPalEnter ==
    /\ cpc = "idle"
    /\ script # <<>>
    /\ Head(script).op = "set_palette"
    /\ CanEnterCritical(frame_spinlock)
    /\ frame_spinlock' = "cpu"
    /\ cur' = [op |-> "set_palette", a |-> Head(script).a, b |-> Head(script).b, i |-> 0]
    /\ script' = Tail(script)
    /\ cpc' = "pal_store"
    /\ UNCHANGED <<palette_rgb565, init_result>>
    /\ UNCHANGED <<globalVars, syncVars, dirtyVars, perfVars, taskVars,
                   timeVars, dispVars, histVars, palHist>>

\* (a loop without the test against the size of the table)
PalLoopContinues_NoCap(i, num) == i < num

\* The condition of set_palette's loop: i < num && i < 256.
PalLoopContinues(i, num) == i < num /\ i < 256

\* for (i = 0; i < num && i < 256; i++) palette_rgb565[i] =
\* rgb888_to_rgb565(r, g, b): one iteration, or the loop's exit and
\* portEXIT_CRITICAL.  The model keeps the first PalModelled entries of the
\* table; a store to a later entry changes none of them.
CpuPalStore ==
    /\ cpc = "pal_store"
    /\ IF PalLoopContinues(cur.i, cur.b)
       THEN /\ palette_rgb565' =
                 [j \in DOMAIN palette_rgb565 |->
                    IF j = cur.i
                    THEN rgb888_to_rgb565(cur.a \div 65536, (cur.a \div 256) % 256,
                                          cur.a % 256)
                    ELSE palette_rgb565[j]]
            /\ cur' = [cur EXCEPT !.i = @ + 1]
            /\ UNCHANGED <<frame_spinlock, cpc, pal_tables>>
       ELSE /\ frame_spinlock' = "free"
            /\ pal_tables' = pal_tables \cup {palette_rgb565}
            /\ cpc' = "pal_force"
            /\ UNCHANGED <<palette_rgb565, cur>>
    /\ UNCHANGED <<script, init_result>>
    /\ UNCHANGED <<pal_returned, pal_owed>>
    /\ UNCHANGED <<globalVars, syncVars, dirtyVars, perfVars, taskVars,
                   timeVars, dispVars, histVars>>

\* force_full_update = true; and set_palette returns.
CpuPalForce ==
    /\ cpc = "pal_force"
    /\ force_full_update' = TRUE
    /\ pal_returned' = TRUE
    /\ cur' = NoOp
    /\ cpc' = "idle"
    /\ UNCHANGED <<script, init_result>>
    /\ UNCHANGED <<dirty_tiles, write_dirty_tiles, dirty_tile_count>>
    /\ UNCHANGED <<pal_tables, pal_owed>>
    /\ UNCHANGED <<globalVars, syncVars, palVars, perfVars, taskVars,
                   timeVars, dispVars, histVars>>

CpuPalNext == CpuPalEnter \/ CpuPalStore \/ CpuPalForce

\* ------------------------------------------------------------------------
\* The CPU thread: VideoInit and VideoExit
\* ------------------------------------------------------------------------
\* VideoInit() in a run where the allocations of the buffers in fails
\* return NULL and xTaskCreatePinnedToCore returns pdPASS iff task_ok.
VideoInitOp(fails, task_ok) == [op |-> "init", a |-> fails, b |-> task_ok]
\* VideoExit(), the k-th call of it in the program.
VideoExitOp(k) == [op |-> "exit", a |-> 0, b |-> k]

\* The check of VideoInit that fails and returns false, "none" when all pass:
\* the source buffer (line 1098), the snapshot and compare buffers (line
\* 1117), the destination framebuffer (line 1140).
InitStage(fails) ==
    IF "mac" \in fails THEN "mac"
    ELSE IF "snapshot" \in fails \/ "compare" \in fails THEN "triple"
    ELSE IF "dsi" \in fails THEN "dsi"
    ELSE "none"

\* The heap after VideoInit: what has become of buffer b.
InitHeap(fails, b) ==
    LET stage == InitStage(fails)
    IN  CASE b = "mac" ->
               IF stage = "mac" THEN heap[b]
               ELSE IF stage = "none" THEN "live" ELSE "freed"
          [] b \in {"snapshot", "compare"} ->
               IF stage = "mac" THEN heap[b]
               ELSE IF stage = "triple"
                    THEN (IF b \in fails THEN heap[b] ELSE "freed")
                    ELSE "live"
          [] OTHER ->
               IF stage = "none" THEN "live" ELSE heap[b]

\* VideoInit, from its first line to its return.  The task does not exist
\* while it runs.  pushed records the pushes of the render task only.
CpuVideoInit ==
    /\ cpc = "idle"
    /\ script # <<>>
    /\ Head(script).op = "init"
    /\ LET fails == Head(script).a
           stage == InitStage(fails)
       IN  /\ frame_buffer_size' = FRAME_BYTES
           /\ mac_frame_buffer' = IF stage = "none" THEN "PTR" ELSE "NULL"
           /\ snapshot_buffer' = CASE stage = "mac" -> snapshot_buffer
                                    [] stage = "triple" -> "NULL"
                                    [] OTHER -> "PTR"
           /\ compare_buffer' = CASE stage = "mac" -> compare_buffer
                                   [] stage = "triple" -> "NULL"
                                   [] OTHER -> "PTR"
           /\ dsi_framebuffer' = CASE stage \in {"mac", "triple"} -> dsi_framebuffer
                                    [] stage = "dsi" -> "NULL"
                                    [] OTHER -> "PTR"
           /\ heap' = [b \in BufNames |-> InitHeap(fails, b)]
           /\ mac_bytes' = IF stage = "mac" THEN mac_bytes ELSE GrayFrame
           /\ snap_bytes' = IF stage \in {"mac", "triple"} THEN snap_bytes ELSE GrayFrame
           /\ cmp_bytes' = IF stage \in {"mac", "triple"} THEN cmp_bytes ELSE GrayFrame
           /\ dirty_tiles' = IF stage \in {"dsi", "none"} THEN ZeroBitmap ELSE dirty_tiles
           /\ force_full_update' =
                IF stage \in {"dsi", "none"} THEN TRUE ELSE force_full_update
           /\ palette_rgb565' = IF stage = "none" THEN DefaultPalette ELSE palette_rgb565
           /\ pal_tables' = IF stage = "none" THEN pal_tables \cup {DefaultPalette}
                            ELSE pal_tables
           /\ video_task_running' = IF stage = "none" THEN TRUE ELSE video_task_running
           /\ video_task_handle' =
                IF stage = "none" /\ Head(script).b THEN "TASK" ELSE video_task_handle
           /\ vpc' = IF stage = "none" /\ Head(script).b THEN "start" ELSE vpc
           /\ init_result' = IF stage = "none" THEN "true" ELSE "false"
    /\ script' = Tail(script)
    /\ UNCHANGED <<cpc, cur>>
    /\ UNCHANGED <<use_write_dirty_tracking, rendered_bytes, tileVars>>
    /\ UNCHANGED <<frame_ready, notify_count, frame_spinlock>>
    /\ UNCHANGED <<write_dirty_tiles, dirty_tile_count>>
    /\ UNCHANGED <<notification, should_render, do_full_update, local_palette,
                   dsi_palette, pal_i, drain_i, drain_count, src_buffer, tile_i>>
    /\ UNCHANGED <<pal_returned, pal_owed>>
    /\ UNCHANGED <<perfVars, timeVars, dispVars, histVars>>

\* VideoExit calls stopVideoTask: if (video_task_running) {
\* video_task_running = false; vTaskDelay(pdMS_TO_TICKS(100)); ... }
CpuVideoExit ==
    /\ cpc = "idle"
    /\ script # <<>>
    /\ Head(script).op = "exit"
    /\ cur' = Head(script)
    /\ script' = Tail(script)
    /\ IF video_task_running
       THEN /\ video_task_running' = FALSE
            /\ cpc' = "exit_delay"
            /\ exit_waited' = 0
       ELSE /\ UNCHANGED <<video_task_running, exit_waited>>
            /\ cpc' = "exit_free"
    /\ UNCHANGED init_result
    /\ UNCHANGED <<frame_ready, video_task_handle, notify_count>>
    /\ UNCHANGED <<waited, since_last_frame>>
    /\ UNCHANGED <<globalVars, palVars, dirtyVars, perfVars, taskVars,
                   dispVars, histVars, palHist>>

\* stopVideoTask: the delay has elapsed; if (video_task_handle)
\* video_task_handle = NULL;
CpuExitDelay ==
    /\ cpc = "exit_delay"
    /\ exit_waited >= STOP_DELAY_TICKS
    /\ video_task_handle' = "NULL"
    /\ cpc' = "exit_free"
    /\ UNCHANGED <<cur, script, init_result>>
    /\ UNCHANGED <<frame_ready, video_task_running, notify_count>>
    /\ UNCHANGED <<globalVars, palVars, dirtyVars, perfVars, taskVars,
                   timeVars, dispVars, histVars, palHist>>

\* (a release that leaves the destination framebuffer out)
ExitOrder_NoDsi == <<"mac", "snapshot", "compare", "compare">>

\* The buffers in the order VideoExit releases them.
ExitOrder == <<"mac", "snapshot", "compare", "dsi">>

\* The pointer variable of buffer b.
PointerOf(b) ==
    CASE b = "mac" -> mac_frame_buffer
      [] b = "snapshot" -> snapshot_buffer
      [] b = "compare" -> compare_buffer
      [] OTHER -> dsi_framebuffer

\* VideoExit: if (p) { free(p); p = NULL; } for the next of the four
\* buffers; cur.a counts the buffers done.
CpuExitFree ==
    /\ cpc = "exit_free"
    /\ LET b == ExitOrder[cur.a + 1]
       IN  /\ heap' = IF PointerOf(b) # "NULL" THEN [heap EXCEPT ![b] = "freed"] ELSE heap
           /\ mac_frame_buffer' = IF b = "mac" THEN "NULL" ELSE mac_frame_buffer
           /\ snapshot_buffer' = IF b = "snapshot" THEN "NULL" ELSE snapshot_buffer
           /\ compare_buffer' = IF b = "compare" THEN "NULL" ELSE compare_buffer
           /\ dsi_framebuffer' = IF b = "dsi" THEN "NULL" ELSE dsi_framebuffer
    /\ IF cur.a + 1 < Len(ExitOrder)
       THEN /\ cur' = [cur EXCEPT !.a = @ + 1]
            /\ UNCHANGED cpc
       ELSE /\ cur' = NoOp
            /\ cpc' = "idle"
    /\ UNCHANGED <<frame_buffer_size, mac_bytes, rendered_bytes, tileVars>>
    /\ UNCHANGED <<use_write_dirty_tracking, snap_bytes, cmp_bytes>>
    /\ UNCHANGED <<script, init_result>>
    /\ UNCHANGED <<syncVars, palVars, dirtyVars, perfVars, taskVars,
                   timeVars, dispVars, histVars, palHist>>

CpuLifeNext == CpuVideoInit \/ CpuVideoExit \/ CpuExitDelay \/ CpuExitFree

\* ------------------------------------------------------------------------
\* Specification: writes, marks and signals against the render task
\* ------------------------------------------------------------------------
WriteOps == {Put8(FRAME_BYTES - 1), PutN(38, 4), Signal}

Init ==
    /\ RunningState
    /\ cpc = "idle" /\ cur = NoOp /\ init_result = "none"
    /\ script \in Programs(WriteOps, MaxOps)

Next == TaskNext \/ CpuWriteNext \/ Tick

Spec == Init /\ [][Next]_vars

\* The render task keeps being scheduled on its core, the CPU thread keeps
\* running its program, and the tick count keeps advancing.
FairInit ==
    /\ RunningState
    /\ cpc = "idle" /\ cur = NoOp /\ init_result = "none"
    /\ script \in Programs(WriteOps, MaxFairOps)

FairSpec ==
    FairInit /\ [][Next]_vars
      /\ WF_vars(TaskNext) /\ WF_vars(CpuWriteNext) /\ WF_vars(Tick)

\* ------------------------------------------------------------------------
\* Specification: the compare fallback (use_write_dirty_tracking false)
\* ------------------------------------------------------------------------
InitFallback ==
    /\ RunningMode(FALSE)
    /\ cpc = "idle" /\ cur = NoOp /\ init_result = "none"
    /\ script \in Programs({Put8Value(FRAME_BYTES - 1, 1),
                            Put8Value(FRAME_BYTES - 1, 128), Signal}, MaxFairOps)

TaskFallbackNext ==
    \/ TaskStart \/ TaskLoop \/ TaskWakeNotified \/ TaskWakeTimeout
    \/ TaskReadReady \/ TaskClearReady \/ TaskRate
    \/ TaskPalEnter \/ TaskPalCopy \/ TaskPalExit \/ TaskReadForce
    \/ TaskSnapshot \/ TaskDetect \/ TaskRender
    \/ TaskFullCheck \/ TaskFullPalEnter \/ TaskFullPalCopy \/ TaskFullPalExit
    \/ TaskFullRead \/ TaskFullPush \/ TaskFullClear
    \/ TaskTileSnap \/ TaskTilePush \/ TaskFinish

\* With the flag false the marking calls return at their first test.
CpuFallbackNext ==
    CpuPut8 \/ CpuMarkOffset \/ CpuSignal \/ CpuSignalCheck \/ CpuSignalGive

NextFallback == TaskFallbackNext \/ CpuFallbackNext \/ Tick

\* The fairness of FairSpec.
SpecFallback ==
    InitFallback /\ [][NextFallback]_vars
      /\ WF_vars(TaskFallbackNext) /\ WF_vars(CpuFallbackNext) /\ WF_vars(Tick)

\* ------------------------------------------------------------------------
\* Specification: writes and marks, and no frame signal at all
\* ------------------------------------------------------------------------
InitNoSignal ==
    /\ RunningState
    /\ cpc = "idle" /\ cur = NoOp /\ init_result = "none"
    /\ script \in Programs(WriteOps \ {Signal}, MaxFairOps)

TaskNoSignalNext == TaskStart \/ TaskLoop \/ TaskWakeTimeout \/ TaskStepNext

NextNoSignal == TaskNoSignalNext \/ CpuMarkNext \/ Tick

\* The fairness of FairSpec.
SpecNoSignal ==
    InitNoSignal /\ [][NextNoSignal]_vars
      /\ WF_vars(TaskNoSignalNext) /\ WF_vars(CpuMarkNext) /\ WF_vars(Tick)

\* ------------------------------------------------------------------------
\* Specification: every producer call against the render task
\* ------------------------------------------------------------------------
InitProducer ==
    /\ RunningState
    /\ cpc = "idle" /\ cur = NoOp /\ init_result = "none"
    /\ script \in Programs(WriteOps \cup {GetFrameBuffer, GetFrameBufferSize}, MaxFairOps)

CpuProducerNext == CpuWriteNext \/ CpuGetFrameBuffer \/ CpuGetFrameBufferSize

NextProducer == TaskNext \/ CpuProducerNext \/ Tick

SpecProducer == InitProducer /\ [][NextProducer]_vars

\* ------------------------------------------------------------------------
\* Specification: palette changes, writes and signals against the render task
\* ------------------------------------------------------------------------
PaletteOps == {SetPalette(0, PalModelled), SetPalette(128, PalModelled),
               Put8(FRAME_BYTES - 1), PutN(38, 4), Signal}

InitPalette ==
    /\ RunningState
    /\ cpc = "idle" /\ cur = NoOp /\ init_result = "none"
    /\ script \in Programs(PaletteOps, MaxPalOps)

NextPalette == TaskNext \/ CpuWriteNext \/ CpuPalNext \/ Tick

SpecPalette == InitPalette /\ [][NextPalette]_vars

\* The same with the task, the CPU thread and the clock scheduled fairly.
FairPalette ==
    SpecPalette /\ WF_vars(TaskNext) /\ WF_vars(CpuWriteNext \/ CpuPalNext)
      /\ WF_vars(Tick)

\* ------------------------------------------------------------------------
\* Specification: multi-byte writes inside one tile
\* ------------------------------------------------------------------------
\* Every write of a program is inside tile 0: a store of the value the tile
\* already holds, which only marks it, and a 39-byte write at offsets 0..38.
\* The two followed bytes of the tile are equal before each write and after it.
\* A program may also change the palette.
InitTile ==
    /\ RunningState
    /\ cpc = "idle" /\ cur = NoOp /\ init_result = "none"
    /\ script \in Programs({Put8Value(0, 128), PutN(0, TILE_WIDTH - 1), Signal,
                            SetPalette(0, PalModelled)}, MaxOps)

SpecTile == InitTile /\ [][NextPalette]_vars

\* ------------------------------------------------------------------------
\* Specification: one set_palette, of a colour whose three bytes are each a
\* multiple of ColourStep or 255, then at most one write, against the
\* render task
\* ------------------------------------------------------------------------
InitColour ==
    /\ RunningState
    /\ cpc = "idle" /\ cur = NoOp /\ init_result = "none"
    /\ LET levels == {k * ColourStep : k \in 0..(255 \div ColourStep)} \cup {255}
       IN  \E r \in levels, g \in levels, b \in levels,
              tail \in Programs({Put8(FRAME_BYTES - 1)}, 1) :
             script = <<SetPaletteRGB(r, g, b, PalModelled)>> \o tail

NextColour == TaskNoSignalNext \/ CpuPalNext \/ CpuPut8 \/ CpuMarkOffset \/ Tick

SpecColour == InitColour /\ [][NextColour]_vars

\* ------------------------------------------------------------------------
\* Specification: two set_palette calls, one after the other, with entry
\* counts below, at and above the bounds of the table
\* ------------------------------------------------------------------------
InitSetPalette ==
    /\ RunningState
    /\ cpc = "idle" /\ cur = NoOp /\ init_result = "none"
    /\ \E n1 \in {-1, 0, 1, PalModelled, 256, 300},
          n2 \in {-1, 0, 1, PalModelled, 255, 256, 257, 300} :
         script = <<SetPalette(0, n1), SetPalette(128, n2)>>

SpecSetPalette == InitSetPalette /\ [][CpuPalNext]_vars

\* ------------------------------------------------------------------------
\* Specification: the life cycle, from VideoInit to VideoExit
\* ------------------------------------------------------------------------
LifePrograms ==
    {<<VideoInitOp(fails, task_ok)>> \o body \o [k \in 1..n |-> VideoExitOp(k)] :
       fails \in SUBSET BufNames, task_ok \in BOOLEAN,
       body \in Programs(WriteOps, MaxLifeOps), n \in 1..MaxExits}

InitLife ==
    /\ StaticState
    /\ cpc = "idle" /\ cur = NoOp /\ init_result = "none"
    /\ script \in LifePrograms

NextLife == TaskNext \/ CpuWriteNext \/ CpuLifeNext \/ Tick

SpecLife == InitLife /\ [][NextLife]_vars

\* ------------------------------------------------------------------------
\* Specification: VideoInit, a running task, VideoExit, and signals before
\* and after it, with every thread and the clock scheduled fairly
\* ------------------------------------------------------------------------
StopPrograms ==
    {<<VideoInitOp({}, task_ok)>> \o body \o <<VideoExitOp(1)>> \o tail :
       task_ok \in BOOLEAN,
       body \in Programs(WriteOps, MaxLifeOps),
       tail \in Programs({Signal}, MaxLifeOps)}

InitStop ==
    /\ StaticState
    /\ cpc = "idle" /\ cur = NoOp /\ init_result = "none"
    /\ script \in StopPrograms

SpecStop ==
    InitStop /\ [][NextLife]_vars
      /\ WF_vars(TaskNext) /\ WF_vars(CpuWriteNext) /\ WF_vars(CpuLifeNext)
      /\ WF_vars(Tick)

\* ------------------------------------------------------------------------
\* Specification: render steps over every number of marked tiles
\* ------------------------------------------------------------------------
\* The bitmap with tiles 0 .. d-1 marked.
FirstTiles(d) ==
    [w \in 0..(BITMAP_WORDS - 1) |-> {b \in 0..(WORD_BITS - 1) : w * WORD_BITS + b < d}]

\* The task is at the top of its loop; the CPU thread has marked d tiles
\* and is idle; force_full_update is set (first frame, palette change) or
\* clear; a frame signal is pending or not.
InitThreshold ==
    /\ use_write_dirty_tracking = TRUE
    /\ mac_frame_buffer = "PTR" /\ snapshot_buffer = "PTR"
    /\ compare_buffer = "PTR" /\ dsi_framebuffer = "PTR"
    /\ frame_buffer_size = FRAME_BYTES
    /\ heap = [b \in BufNames |-> "live"]
    /\ mac_bytes = GrayFrame
    /\ snap_bytes = GrayFrame /\ cmp_bytes = GrayFrame
    /\ rendered_bytes = [o \in TrackedOffsets |-> -1]
    /\ tile_snapshot = [o \in TrackedOffsets |-> 0]
    /\ tile_buffer = [o \in TrackedOffsets |-> 0]
    /\ dsi_pixels = {} /\ tile_pixels = {}
    /\ video_task_handle = "TASK"
    /\ video_task_running = TRUE
    /\ notify_count \in 0..1
    /\ frame_ready = (notify_count > 0)
    /\ palette_rgb565 = DefaultPalette
    /\ frame_spinlock = "free"
    /\ dirty_tiles = ZeroBitmap
    /\ \E d \in 0..TOTAL_TILES : write_dirty_tiles = FirstTiles(d)
    /\ force_full_update \in BOOLEAN
    /\ dirty_tile_count = 0
    /\ perf_frame_count = 0 /\ perf_partial_count = 0
    /\ perf_full_count = 0 /\ perf_skip_count = 0
    /\ notification = 0
    /\ should_render = FALSE
    /\ do_full_update = FALSE
    /\ local_palette = UninitPalette
    /\ dsi_palette = UninitPalette
    /\ pal_i = 0 /\ drain_i = 0 /\ drain_count = 0
    /\ src_buffer = "NULL"
    /\ tile_i = 0
    /\ waited = 0 /\ since_last_frame = 0 /\ exit_waited = 0
    /\ pushed = <<>> /\ step_kind = "none" /\ partial_renders = 0
    /\ unshown = {} /\ fresh = {} /\ mid_drain_marks = {}
    /\ unreported = TilesOf(write_dirty_tiles)
    /\ fault = "none"
    /\ pal_tables = {palette_rgb565}
    /\ pal_returned = FALSE /\ pal_owed = FALSE
    /\ vpc = "loop"
    /\ cpc = "idle" /\ cur = NoOp /\ init_result = "true"
    /\ script = <<>>

NextThreshold == TaskLoopNext \/ Tick

SpecThreshold == InitThreshold /\ [][NextThreshold]_vars

\* ------------------------------------------------------------------------
\* Specification: renderFrameToDSI, for every source pixel
\* ------------------------------------------------------------------------
\* A step that has come to its render with one source pixel followed, any
\* offset of the buffer, holding the byte 1 or VideoInit's 0x80, under the
\* default palette or an all-red one: the first step after VideoInit at its
\* full render, or a later step at the partial render of the pixel's tile
\* (there with the byte 1 and the red palette).
InitScale ==
    /\ vpc \in {"full_read", "tile_snap"}
    /\ use_write_dirty_tracking = TRUE
    /\ mac_frame_buffer = "PTR" /\ snapshot_buffer = "PTR"
    /\ compare_buffer = "PTR" /\ dsi_framebuffer = "PTR"
    /\ frame_buffer_size = FRAME_BYTES
    /\ heap = [b \in BufNames |-> "live"]
    /\ \E o \in 0..(FRAME_BYTES - 1), v \in (IF vpc = "full_read" THEN {1, 128} ELSE {1}) :
          mac_bytes = [p \in {o} |-> v]
    /\ snap_bytes = [p \in DOMAIN mac_bytes |-> 128]
    /\ cmp_bytes = [p \in DOMAIN mac_bytes |-> 128]
    /\ rendered_bytes = [p \in DOMAIN mac_bytes |-> IF vpc = "full_read" THEN -1 ELSE 128]
    /\ tile_snapshot = [p \in DOMAIN mac_bytes |-> 0]
    /\ tile_buffer = [p \in DOMAIN mac_bytes |-> 0]
    /\ dsi_pixels = {} /\ tile_pixels = {}
    /\ video_task_handle = "TASK"
    /\ video_task_running = TRUE
    /\ notify_count = 0
    /\ frame_ready = FALSE
    /\ palette_rgb565 \in
         {[i \in 0..(PalModelled - 1) |-> rgb888_to_rgb565(255, 0, 0)]}
           \cup (IF vpc = "full_read" THEN {DefaultPalette} ELSE {})
    /\ frame_spinlock = "free"
    /\ dirty_tiles = IF vpc = "full_read" THEN ZeroBitmap
                     ELSE [w \in DOMAIN ZeroBitmap |->
                             {BitOf(TileOfOffset(o)) :
                                o \in {p \in DOMAIN mac_bytes : WordOf(TileOfOffset(p)) = w}}]
    /\ write_dirty_tiles = ZeroBitmap
    /\ force_full_update = (vpc = "full_read")
    /\ dirty_tile_count = IF vpc = "full_read" THEN 0 ELSE 1
    /\ perf_frame_count = 0 /\ perf_partial_count = 0
    /\ perf_full_count = 0 /\ perf_skip_count = 0
    /\ notification = 0
    /\ should_render = FALSE
    /\ do_full_update = (vpc = "full_read")
    /\ local_palette = palette_rgb565
    /\ dsi_palette = IF vpc = "full_read" THEN palette_rgb565 ELSE UninitPalette
    /\ pal_i = 0 /\ drain_i = 0 /\ drain_count = 0
    /\ src_buffer = "PTR"
    /\ tile_i = 0
    /\ waited = 0 /\ since_last_frame = 0 /\ exit_waited = 0
    /\ pushed = <<>> /\ step_kind = (IF vpc = "full_read" THEN "full" ELSE "partial") /\ partial_renders = 0
    /\ unshown = {} /\ fresh = {} /\ mid_drain_marks = {}
    /\ unreported = {}
    /\ fault = "none"
    /\ pal_tables = {palette_rgb565}
    /\ pal_returned = FALSE /\ pal_owed = FALSE
    /\ cpc = "idle" /\ cur = NoOp /\ init_result = "true"
    /\ script = <<>>

SpecScale == InitScale /\ [][TaskFullRead \/ TaskTileSnap \/ TaskTilePush]_vars

\* ------------------------------------------------------------------------
\* Specification: one write and its mark, for every offset of the buffer
\* ------------------------------------------------------------------------
InitTiles ==
    /\ RunningState
    /\ cpc = "idle" /\ cur = NoOp /\ init_result = "true"
    /\ \E o \in 0..(FRAME_BYTES - 1) : script = <<Put8(o)>>

NextTiles == CpuPut8 \/ CpuMarkOffset

SpecTiles == InitTiles /\ [][NextTiles]_vars

\* ------------------------------------------------------------------------
\* Specification: marks of offsets inside the buffer, at its end and far
\* beyond it (-1 is 2^32 - 1), before VideoInit and against the running task
\* ------------------------------------------------------------------------
InitMarks ==
    /\ \/ RunningState
       \/ StaticState /\ TaskAtStart
    /\ cpc = "idle" /\ cur = NoOp /\ init_result = "none"
    /\ script \in Programs({Put8(0), Put8(FRAME_BYTES - 1), Put8(FRAME_BYTES),
                            Put8(FRAME_BYTES + MAC_SCREEN_WIDTH - 1),
                            Put8(2147483647), Put8(-1)}, MaxPalOps)

SpecMarks ==
    InitMarks /\ [][TaskNoSignalNext \/ CpuPut8 \/ CpuMarkOffset \/ Tick]_vars

\* ------------------------------------------------------------------------
\* Specification: one range write and its marks, for offsets at the edges of
\* tiles and of the buffer, and sizes that are small, that span several
\* tiles, that pass the buffer end, that are within MaxRangeSize of 2^32,
\* and that bring offset + size - 1 to 2^32 (a negative size n stands for
\* 2^32 + n)
\* ------------------------------------------------------------------------
InitRange ==
    /\ RunningState
    /\ cpc = "idle" /\ cur = NoOp /\ init_result = "true"
    /\ \E o \in {0, TILE_WIDTH - 1, TILE_WIDTH, MAC_SCREEN_WIDTH * TILE_HEIGHT - 1,
                  FRAME_BYTES - 1} :
       \E n \in (0..MaxRangeSize) \cup {k * TILE_WIDTH + 1 : k \in 1..MaxRangeSpan}
                  \cup {FRAME_BYTES} \cup {0 - k : k \in 1..MaxRangeSize}
                  \cup {1 - o} :
          script = <<PutN(o, n)>>

NextRange == CpuPutN \/ CpuPutNRest \/ CpuRangeFirst \/ CpuRangeLast

SpecRange == InitRange /\ [][NextRange]_vars

\* ------------------------------------------------------------------------
\* Specification: VideoInit, a write at pixel (0,0), its mark, one signal
\* ------------------------------------------------------------------------
InitScenario ==
    /\ StaticState
    /\ cpc = "idle" /\ cur = NoOp /\ init_result = "none"
    /\ script = <<VideoInitOp({}, TRUE), Put8(0), Signal>>

CpuScenarioNext ==
    \/ CpuVideoInit \/ CpuPut8 \/ CpuMarkOffset
    \/ CpuSignal \/ CpuSignalCheck \/ CpuSignalGive

NextScenario == TaskNext \/ CpuScenarioNext \/ Tick

\* The task keeps being scheduled, the CPU thread keeps running its
\* program, and the tick count keeps advancing.
SpecScenario ==
    InitScenario /\ [][NextScenario]_vars
      /\ WF_vars(TaskNext) /\ WF_vars(CpuScenarioNext) /\ WF_vars(Tick)

\* ------------------------------------------------------------------------
\* Properties
\* ------------------------------------------------------------------------
\* C1 as stated: every marked tile is reported by a drain that starts after
\* the mark, so no drain step reports a tile that was marked after the drain
\* had begun exchanging words.
C1_ReportedByLaterDrain ==
    [][(vpc = "drain" /\ drain_i' = drain_i + 1) =>
         {t \in mid_drain_marks :
            WordOf(t) = drain_i /\ BitOf(t) \in write_dirty_tiles[drain_i]} = {}]_vars

\* C1 as amended: a tile's bit is set in write_dirty_tiles exactly while a
\* mark of it is unreported (no mark is lost, no mark is reported by two
\* drains), and when a drain completes the only unreported marks are marks
\* made while that drain was in progress: a mark is reported by the drain
\* in progress if it had not yet exchanged the tile's word, otherwise by
\* the first drain that starts after the mark.
C1_DrainCompleteness ==
    /\ TilesOf(write_dirty_tiles) = unreported
    /\ (vpc = "threshold") => (unreported \subseteq mid_drain_marks)

\* C1 witness: a drain has completed that reported a tile marked while it
\* was in progress, and left another mark for the next drain.
C1_Witness ==
    /\ vpc = "threshold"
    /\ \E t \in mid_drain_marks : t \in TilesOf(dirty_tiles) /\ t \notin unreported
    /\ unreported # {}

\* C2: every write to the frame buffer (made before its mark, touching at
\* most two tiles) is eventually shown by an update that read it after the
\* write, whatever the pattern of frame signals.
C2_WriteEventuallyShown ==
    \A o \in TrackedOffsets : (o \in unshown) ~> (o \notin unshown)

\* C2 witness: a write whose mark was left behind by the drain of the step
\* that is rendering, so that a later step has to show it.
C2_Witness ==
    /\ vpc = "tile_push"
    /\ \E o \in unshown : o \notin fresh /\ TileOfOffset(o) \in unreported

\* C3 as stated: a render step that begins after set_palette has returned
\* is a full update.
C3_NextStepFull ==
    (pal_owed /\ step_kind # "none") => (step_kind = "full")

\* C4: the palette copy a render pass works from (the step's local_palette
\* once copied, renderFrameToDSI's copy once copied) is a table that
\* palette_rgb565 held outside the critical section of set_palette, never
\* one with only some of a call's entries stored.
C4_SnapshotConsistent ==
    /\ (vpc \in (StepPcs \ {"pal_enter", "pal_copy"})) => (local_palette \in pal_tables)
    /\ (vpc \in {"full_pal_exit", "full_read"}) => (dsi_palette \in pal_tables)

\* C4 witness: renderFrameToDSI has copied the table of a first
\* set_palette, which differs from the step's own older copy, and a second
\* set_palette is inside its critical section with only some entries stored.
C4_Witness ==
    /\ vpc = "full_read"
    /\ dsi_palette # local_palette
    /\ dsi_palette # DefaultPalette
    /\ cpc = "pal_store"
    /\ palette_rgb565 \notin pal_tables

\* C5 as stated: the render task never reads or writes a buffer that has
\* been freed, and never dereferences a pointer VideoExit has set to NULL.
C5_NoAccessAfterFree ==
    fault = "none"

\* C10 as stated: when VideoInit has returned false, every buffer it
\* allocated has been released and every buffer pointer is NULL.
C10_FailureReleasesAll ==
    (init_result = "false") =>
        /\ \A b \in BufNames : PointerOf(b) = "NULL"
        /\ \A b \in BufNames : heap[b] # "live"

\* C6: in a render step that went on, with the forced-full flag clear the
\* update is full iff the drained count exceeds 115 (116 is full, every
\* count from 1 to 115 is partial), and with the flag set the update is
\* full whatever the number of marked tiles.  The flag is not cleared
\* before the end of a full update, so until then it tells whether the
\* step was forced.
C6_ThresholdRule ==
    (step_kind # "none" /\ vpc # "finish") =>
        IF force_full_update
        THEN step_kind = "full"
        ELSE /\ dirty_tile_count = Cardinality(TilesOf(dirty_tiles))
             /\ (step_kind = "full") <=> (dirty_tile_count >= 116)
             /\ (dirty_tile_count \in 1..115) => (step_kind = "partial")

\* C6 witness: a full update chosen by the threshold alone, at 116 tiles.
C6_Witness ==
    /\ vpc = "full_read"
    /\ ~force_full_update
    /\ step_kind = "full"
    /\ dirty_tile_count = 116

\* C8: for every byte offset of the 640x360 buffer the tile index that
\* VideoMarkDirtyOffset computes is (offset/640/40)*16 + (offset%640)/40,
\* lies in 0..143, is the only tile marked, is the one and only tile whose
\* snapshotTile rectangle contains the byte (no gap, no overlap), and that
\* rectangle lies inside the source.
C8_TileCoverage ==
    /\ (cpc = "mark_offset") =>
          LET o == cur.a
              t == TileOfOffset(o)
          IN  /\ o \in 0..(640 * 360 - 1)
              /\ t = ((o \div 640) \div 40) * 16 + (o % 640) \div 40
              /\ t \in 0..143
              /\ {u \in 0..143 : snapshotTile(u % 16, u \div 16, o)} = {t}
              /\ 40 * (t % 16) + 39 <= 639
              /\ 40 * (t \div 16) + 39 <= 359
    /\ (cpc = "idle" /\ script = <<>>) =>
          \A o \in unshown : TilesOf(write_dirty_tiles) = {TileOfOffset(o)}

\* C8 witness: the last byte of the buffer has been written and marked:
\* tile 143 alone is dirty.
C8_Witness ==
    /\ cpc = "idle" /\ script = <<>>
    /\ unshown = {640 * 360 - 1}
    /\ TilesOf(write_dirty_tiles) = {143}

\* C9: after VideoInit, the write at (0,0), VideoMarkDirtyOffset(0) and
\* VideoSignalFrameReady, only tile 0 is ever marked dirty, a partial
\* update pushes nothing but the 80x80 block at (0,0), and exactly one
\* partial update takes place.
C9_Scenario ==
    /\ [](unreported \subseteq {0} /\ TilesOf(write_dirty_tiles) \subseteq {0})
    /\ []((script = <<>> /\ cpc = "idle" /\ partial_renders = 0)
            => (isTileDirty(write_dirty_tiles, 0) \/ isTileDirty(dirty_tiles, 0)))
    /\ []((step_kind = "partial") =>
             /\ TilesOf(dirty_tiles) = {0}
             /\ pushed \in {<<>>, <<[x |-> 0, y |-> 0, w |-> 80, h |-> 80, n |-> 6400]>>})
    /\ [](partial_renders <= 1)
    /\ <>[](partial_renders = 1)

\* C9 witness: the partial update has pushed the block at (0,0) and ended.
C9_Witness ==
    /\ vpc = "finish"
    /\ step_kind = "partial"
    /\ pushed = <<[x |-> 0, y |-> 0, w |-> 80, h |-> 80, n |-> 6400]>>
    /\ partial_renders = 1
    /\ script = <<>>

\* C11: when a call of VideoExit has returned the loop condition is false,
\* the task handle and the four buffer pointers are NULL and no buffer is
\* allocated; a pointer that is not NULL never refers to a freed block, so
\* nothing is freed twice; and no step of a second or later call of
\* VideoExit changes a global of the driver.
C11_ExitIdempotent ==
    /\ []((cpc = "idle" /\ init_result # "none"
            /\ (script = <<>> \/ (Head(script).op = "exit" /\ Head(script).b > 1))) =>
             /\ ~video_task_running
             /\ video_task_handle = "NULL"
             /\ \A b \in BufNames : PointerOf(b) = "NULL" /\ heap[b] # "live")
    /\ [](\A b \in BufNames : (PointerOf(b) # "NULL") => (heap[b] = "live"))
    /\ [][((cpc = "idle" /\ cpc' # "idle" /\ script # <<>> /\ Head(script).op = "exit"
              /\ Head(script).b > 1)
            \/ (cpc \in {"exit_delay", "exit_free"} /\ cpc' # cpc /\ cur.b > 1)
            \/ (cpc = "exit_free" /\ cur' # cur /\ cur.b > 1))
           => UNCHANGED <<globalVars, syncVars, palVars, dirtyVars, perfVars>>]_vars

\* C11 witness: a second call of VideoExit, after a VideoInit that
\* succeeded, is at the last of the four buffers.
C11_Witness ==
    /\ cpc = "exit_free"
    /\ cur.b = 2 /\ cur.a = 3
    /\ init_result = "true"
    /\ heap["mac"] = "freed"

\* C12 as stated: a render step that works from a NULL source pointer
\* dereferences nothing and pushes nothing, on the full-update path
\* (renderFrameToDSI's argument) and on the partial-update path
\* (renderAndPushDirtyTiles' argument) alike.
C12_NullIsNoOp ==
    /\ fault # "null_deref"
    /\ (vpc \in {"tile_snap", "tile_push", "full_pal_enter", "full_pal_copy",
                  "full_pal_exit", "full_read", "full_push", "full_clear"}
          /\ src_buffer = "NULL") => (pushed = <<>>)

\* C13: a step goes on from the rate test to the palette copy, the drain
\* and the render only when at least 67 ticks have passed since the tick
\* count that the previous step that went on stored in last_frame_ticks
\* (since the task's start, for the first step), for a signalled wake and
\* for a timeout wake alike.
C13_FrameRateCap ==
    [][(vpc = "rate" /\ vpc' = "pal_enter") => (since_last_frame >= 67)]_vars

\* C13 witness: a step woken by a frame signal has passed the rate test
\* and is draining, after an earlier step had gone on.
C13_Witness ==
    /\ vpc = "drain"
    /\ notification > 0
    /\ should_render

\* C14: when VideoSignalFrameReady is never called every wake of the task
\* is a timeout wake, and every tile that is marked dirty is then rendered
\* and pushed by a step that such a wake started.
C14_TimeoutRenders ==
    /\ [](notify_count = 0 /\ notification = 0 /\ ~frame_ready /\ ~should_render)
    /\ \A t \in {TileOfOffset(o) : o \in TrackedOffsets} :
          isTileDirty(write_dirty_tiles, t) ~> (vpc = "tile_push" /\ tile_i = t)

\* C14 witness: a step started by a timeout wake is pushing tile 143, whose
\* mark it drained.
C14_Witness ==
    /\ vpc = "tile_push" /\ tile_i = 143
    /\ notification = 0 /\ ~should_render
    /\ 143 \notin unreported

C16_ProducerNeverWaits ==
    /\ []((cpc # "idle" \/ script # <<>>) => ENABLED CpuProducerNext)
    /\ [][CpuProducerNext => (cpc' # cpc \/ script' # script)]_vars

\* C16 witness: a mark was completed while the task's drain was under way,
\* and a getter has returned the buffer while the drain still is.
C16_Witness ==
    /\ vpc = "drain" /\ drain_i > 0 /\ mid_drain_marks # {}
    /\ cpc = "idle" /\ cur.op = "get_buffer" /\ cur.ptr = "PTR"

\* C17: VideoMarkDirtyRange(offset, size) with offset inside the buffer and
\* size at least 1 marks the tile of byte offset and the tile of the last
\* byte, which is byte offset+size-1 or the last byte of the buffer when
\* that is beyond it, and no other tile.  (cur.a is offset and cur.b is
\* size, a negative cur.b standing for 2^32 + cur.b; the bitmap is empty
\* before the call.)
C17_RangeMarksEnds ==
    [][LET first == TileOfOffset(cur.a)
           last == TileOfOffset(IF cur.b < 0
                                THEN frame_buffer_size - 1
                                ELSE Min(cur.a + cur.b - 1, frame_buffer_size - 1))
       IN  /\ (cpc = "range_first" /\ cur.b # 0) =>
                 /\ TilesOf(write_dirty_tiles') = {first}
                 /\ (cpc' = "idle") => (last = first)
           /\ (cpc = "range_last") =>
                 TilesOf(write_dirty_tiles') = {first, last}
      ]_vars

\* C18: set_palette stores for the bytes (r, g, b) the 16-bit value whose low
\* byte is RRRRRGGG (the top 5 bits of r, the top 3 bits of the 6-bit green
\* g >> 2) and whose high byte is GGGBBBBB (the low 3 bits of the 6-bit
\* green, the top 5 bits of b), which for (255, 0, 0) is 0x00F8 = 248; and a
\* render step that began after set_palette returned renders every index
\* through exactly the stored values, on the partial and on the full path.
C18_PaletteEncoding ==
    /\ [][(cpc = "pal_store" /\ cpc' = "pal_store" /\ cur' # cur) =>
            LET r == cur.a \div 65536
                g == (cur.a \div 256) % 256
                b == cur.a % 256
                green6 == g \div 4
                low == (r \div 8) * 8 + green6 \div 8
                high == (green6 % 8) * 32 + b \div 8
            IN  /\ palette_rgb565'[cur.i] = high * 256 + low
                /\ (r = 255 /\ g = 0 /\ b = 0) => (palette_rgb565'[cur.i] = 248)
          ]_vars
    /\ []((pal_owed /\ vpc = "tile_push") => (local_palette = palette_rgb565))
    /\ []((pal_owed /\ vpc = "full_push") => (dsi_palette = palette_rgb565))

\* C18 witness: set_palette was called with (255, 0, 0) and returned, and a
\* partial step that began afterwards is pushing a tile rendered through
\* 0x00F8.
C18_Witness ==
    /\ pal_owed /\ vpc = "tile_push"
    /\ \A i \in DOMAIN local_palette : local_palette[i] = 248

\* C19: every block pushed to the display has as many pixels as its window
\* has, and its window lies inside the 1280x720 display; the blocks of a
\* partial update are 6400 pixels for an 80x80 window, the block of a full
\* update is 1280*720 pixels for the window (0, 0, 1280, 720).
C19_PushedBlocks ==
    \A k \in DOMAIN pushed :
       LET p == pushed[k]
       IN  /\ p.n = p.w * p.h
           /\ p.x >= 0 /\ p.y >= 0 /\ p.w > 0 /\ p.h > 0
           /\ p.x + p.w <= 1280 /\ p.y + p.h <= 720
           /\ (step_kind = "partial") => (p.n = 6400 /\ p.w = 80 /\ p.h = 80)
           /\ (step_kind = "full") =>
                 (p = [x |-> 0, y |-> 0, w |-> 1280, h |-> 720, n |-> 1280 * 720])

\* C19 witness: a partial update has pushed the block of the last tile, whose
\* window ends at the display's bottom right corner.
C19_Witness ==
    /\ step_kind = "partial"
    /\ \E k \in DOMAIN pushed :
          pushed[k] = [x |-> 1200, y |-> 640, w |-> 80, h |-> 80, n |-> 6400]

\* C20: no step of the render task (drain, full update, partial update,
\* skip) changes a byte of the source frame buffer: with VideoInit done, the
\* bytes change only in the store of a producer write.
C20_SourceReadOnly ==
    [][(mac_bytes' # mac_bytes) =>
         /\ \/ cpc = "idle" /\ cpc' \in {"mark_offset", "range_store"}
            \/ cpc = "range_store" /\ cpc' = "range_first"
         /\ vpc' = vpc
         /\ \A o \in DOMAIN mac_bytes :
               (mac_bytes'[o] # mac_bytes[o]) =>
                  (o \in {cur'.a, cur'.a + cur'.b - 1} /\ mac_bytes'[o] = 1)
      ]_vars

\* C20 witness: the forced full update and then a partial update of the
\* tile of the buffer's last byte have read the source, and the byte the
\* producer stored there is as it was stored.
C20_Witness ==
    /\ vpc = "finish" /\ step_kind = "partial" /\ partial_renders > 0
    /\ mac_bytes[FRAME_BYTES - 1] = 1 /\ mac_bytes[0] = 128

\* C21 as stated: once a set_palette call has returned, either another call
\* follows or a full update that copied the table this call left reaches its
\* push: the request the call raised is not lost to a full update that
\* copied the palette before it.
C21_ForceNotLost ==
    pal_returned ~>
       \/ cpc \in {"pal_store", "pal_force"}
       \/ vpc = "full_push" /\ dsi_palette = palette_rgb565

\* C22 as stated: once video_task_running has been cleared, the wake that
\* ends the task's wait takes it out of its loop: the task goes from the
\* wait to its exit and into no render step.
C22_ExitsAtNextWake ==
    [][(~video_task_running /\ vpc = "wait" /\ vpc' # "wait") => (vpc' = "dead")]_vars

\* C23: the steps of a signalled wake that finds less than 67 ticks elapsed
\* since the last render (the wake, the read and the clear of frame_ready,
\* the rate test) end at the top of the loop and leave the two bitmaps, the
\* forced-full flag, the dirty count, the four counters, the age of the last
\* render and the display untouched; and a later wake passes the rate test.
C23_AbandonedStep ==
    /\ [][(vpc \in {"wait", "woken", "clear_ready"} /\ vpc' # vpc) =>
            UNCHANGED <<dirtyVars, perfVars, since_last_frame, dispVars>>]_vars
    /\ [][(vpc = "rate" /\ vpc' # vpc /\ should_render /\ since_last_frame < 67) =>
            /\ vpc' = "loop"
            /\ UNCHANGED <<dirtyVars, perfVars, since_last_frame, dispVars>>]_vars
    /\ (vpc = "rate" /\ should_render /\ since_last_frame < 67) ~> (vpc = "pal_enter")

\* C23 witness: a signalled wake is at its rate test too early, with a tile
\* marked and no forced-full request: the step is about to be abandoned.
C23_Witness ==
    /\ vpc = "rate" /\ should_render /\ notification > 0 /\ since_last_frame < 67
    /\ ~force_full_update /\ 143 \in TilesOf(write_dirty_tiles)

C25_TileSnapshotWhole ==
    (/\ vpc = "tile_push" /\ fault = "none" /\ cur.op = "putN"
     /\ {cur.a, cur.a + cur.b - 1} \subseteq OffsetsInTile(tile_i))
       => (tile_snapshot[cur.a] = tile_snapshot[cur.a + cur.b - 1])

\* C26: once snapshotTile has copied a tile, the block pushed for the tile
\* is made of the copy and of the step's palette snapshot only: no step of
\* the producer between the copy and the push changes either, and every pixel
\* pushed is the palette snapshot's entry for the byte of the copy.
C26_PushFromSnapshot ==
    /\ [][(vpc = "tile_push" /\ vpc' = vpc) =>
            UNCHANGED <<tile_snapshot, local_palette>>]_vars
    /\ [][(vpc = "tile_push" /\ vpc' # vpc /\ fault = "none") =>
            \A o \in OffsetsInTile(tile_i) :
               tile_buffer'[o] = PaletteEntry(local_palette, tile_snapshot[o])]_vars

\* C26 witness: the block of tile 0 was pushed with the byte copied before
\* the producer's store at offset 0 and with the palette copied before a
\* set_palette, both of which came between the copy and the push.
C26_Witness ==
    /\ vpc = "tile_snap" /\ tile_i = 1 /\ step_kind = "partial" /\ fault = "none"
    /\ tile_snapshot[0] = 128 /\ mac_bytes[0] = 1
    /\ tile_buffer[0] = PaletteEntry(local_palette, 128)
    /\ palette_rgb565 # local_palette

\* C27: whenever video_task_handle is non-NULL the render task is still
\* alive, so that VideoSignalFrameReady never notifies a task that has exited.
C27_HandleMeansAlive ==
    (video_task_handle # "NULL") => (vpc \notin {"none", "dead"})

\* C28: the first render step that is not abandoned after a successful
\* VideoInit is a full update, whatever the dirty bitmaps hold: as long as
\* nothing has been rendered since VideoInit, a step that reaches its render
\* decision decides for a full update.
C28_FirstStepFull ==
    [][(/\ init_result = "true"
        /\ \A o \in TrackedOffsets : rendered_bytes[o] = -1
        /\ step_kind = "none" /\ step_kind' # "none") => (step_kind' = "full")]_vars

\* C28 witness: the first step after VideoInit has decided for a full update
\* while the write bitmap holds the mark of a write made before it.
C28_Witness ==
    /\ init_result = "true" /\ step_kind = "full" /\ vpc = "full_check"
    /\ \A o \in TrackedOffsets : rendered_bytes[o] = -1
    /\ 0 \in TilesOf(write_dirty_tiles)

\* C29: a partial update pushes exactly one block for each tile whose bit
\* is set in the render bitmap and none for any other tile, and the block of
\* tile t goes to the window (80 * (t mod 16), 80 * (t div 16), 80, 80).
C29_OneBlockPerDirtyTile ==
    (vpc = "finish" /\ step_kind = "partial") =>
       /\ Len(pushed) = Cardinality(TilesOf(dirty_tiles))
       /\ \A t \in 0..(TOTAL_TILES - 1) :
             Cardinality({k \in DOMAIN pushed :
                            /\ pushed[k].x = 80 * (t % 16)
                            /\ pushed[k].y = 80 * (t \div 16)
                            /\ pushed[k].w = 80 /\ pushed[k].h = 80})
               = IF t \in TilesOf(dirty_tiles) THEN 1 ELSE 0

\* C29 witness: a partial update of the first 115 tiles has ended; its last
\* block is that of tile 114, at column 2 of row 7.
C29_Witness ==
    /\ vpc = "finish" /\ step_kind = "partial"
    /\ TilesOf(dirty_tiles) = 0..114
    /\ Len(pushed) = 115
    /\ pushed[115].x = 160 /\ pushed[115].y = 560

\* C30: after the full render of source content S with palette snapshot P,
\* for every source pixel (x, y) the destination pixels (2x, 2y), (2x+1, 2y),
\* (2x, 2y+1), (2x+1, 2y+1) of the 1280-wide buffer hold P[S[y*640+x]]; and
\* every pixel of the buffer has been written: every write lies in the
\* 1280x720 buffer, inside the 2x2 block of its own source pixel, so that the
\* 640x360 blocks of four fill it.
C30_FullRenderScales ==
    (vpc = "full_push" /\ fault = "none") =>
       /\ \A o \in DOMAIN rendered_bytes :
             LET x == o % 640
                 y == o \div 640
                 c == IF rendered_bytes[o] \in DOMAIN dsi_palette
                      THEN dsi_palette[rendered_bytes[o]]
                      ELSE rgb888_to_rgb565(255 - rendered_bytes[o], 255 - rendered_bytes[o],
                                            255 - rendered_bytes[o])
             IN  \A d \in {(2 * y) * 1280 + 2 * x, (2 * y) * 1280 + 2 * x + 1,
                           (2 * y + 1) * 1280 + 2 * x, (2 * y + 1) * 1280 + 2 * x + 1} :
                    /\ <<d, c>> \in dsi_pixels
                    /\ \A p \in dsi_pixels : (p[1] = d) => (p[2] = c)
       /\ \A p \in dsi_pixels :
             /\ p[1] \in 0..(1280 * 720 - 1)
             /\ ((p[1] \div 1280) \div 2) * 640 + ((p[1] % 1280) \div 2)
                  \in DOMAIN rendered_bytes

\* C30 witness: the full render has written the four pixels of the last
\* source pixel, (639, 359), in red, up to the last pixel of the buffer.
C30_Witness ==
    /\ vpc = "full_push" /\ fault = "none"
    /\ DOMAIN rendered_bytes = {FRAME_BYTES - 1}
    /\ rendered_bytes[FRAME_BYTES - 1] = 1
    /\ <<1280 * 720 - 1, 248>> \in dsi_pixels

\* C31: for any source content, palette and tile, the block that snapshotTile
\* and renderTileFromSnapshot produce and the partial update pushes at
\* (80*tx, 80*ty) equals that rectangle of the buffer renderFrameToDSI
\* produces from the same content and palette: the pixels a partial update
\* has shown are those of the full render of the bytes it copied, and the
\* pixels a full render has written are those of the tile render of the
\* bytes it read.
C31_TileEqualsFull ==
    /\ (vpc = "tile_snap" /\ tile_pixels # {} /\ fault = "none") =>
          (tile_pixels =
             renderFrameToDSI([o \in {p \in DOMAIN tile_snapshot : tile_snapshot[p] # -1} |->
                                 tile_snapshot[o]], local_palette))
    /\ (vpc = "full_push" /\ fault = "none") =>
          (dsi_pixels =
             UNION {{<<d, renderTileFromSnapshot(rendered_bytes, dsi_palette)[o]>> :
                       d \in TileWrites(o, TileOfOffset(o))} : o \in DOMAIN rendered_bytes})

\* C31 witness: a partial update has pushed the block of the last tile with
\* the red pixels of the last source byte at the last pixel of the display.
C31_Witness ==
    /\ vpc = "tile_snap" /\ tile_i = TOTAL_TILES /\ step_kind = "partial"
    /\ DOMAIN mac_bytes = {FRAME_BYTES - 1}
    /\ <<1280 * 720 - 1, 248>> \in tile_pixels

\* C32: detectDirtyTiles(current, previous) leaves bit t of dirty_tiles set
\* exactly when a byte of tile t differs between the two buffers, every
\* other bit clear whatever the bitmap held before, and returns the number
\* of bits set.
C32_DetectExact ==
    [][(vpc = "detect" /\ vpc' = "render" /\ fault' = "none") =>
         /\ \A w \in DOMAIN dirty_tiles', b \in 0..31 :
               (b \in dirty_tiles'[w]) <=>
                  (\E o \in DOMAIN snap_bytes :
                     /\ snap_bytes[o] # cmp_bytes[o]
                     /\ WordOf(TileOfOffset(o)) = w /\ BitOf(TileOfOffset(o)) = b)
         /\ \A w \in DOMAIN dirty_tiles' : dirty_tiles'[w] \subseteq 0..31
         /\ dirty_tile_count' =
              Cardinality({t \in 0..(BITMAP_WORDS * WORD_BITS - 1) :
                             BitOf(t) \in dirty_tiles'[WordOf(t)]})]_vars

\* C32 witness: a pass of the compare fallback has found no difference and
\* left the bitmap clear after an earlier pass had found and rendered a
\* dirty tile.
C32_Witness ==
    /\ ~use_write_dirty_tracking /\ vpc = "render" /\ ~do_full_update
    /\ partial_renders >= 1
    /\ dirty_tile_count = 0 /\ dirty_tiles = ZeroBitmap
    /\ fault = "none"

\* C33: each iteration of collectWriteDirtyTiles leaves in dirty_tiles[i] the
\* value write_dirty_tiles[i] held at the exchange and leaves that word zero
\* at that moment; the value returned (and stored in dirty_tile_count) is the
\* number of bits set in the values taken.
C33_DrainExact ==
    /\ [][(vpc = "drain" /\ drain_i' = drain_i + 1) =>
            /\ dirty_tiles'[drain_i] = write_dirty_tiles[drain_i]
            /\ write_dirty_tiles'[drain_i] = {}
            /\ \A w \in DOMAIN dirty_tiles \ {drain_i} :
                  /\ dirty_tiles'[w] = dirty_tiles[w]
                  /\ write_dirty_tiles'[w] = write_dirty_tiles[w]
            /\ drain_count' = drain_count + Cardinality(write_dirty_tiles[drain_i])]_vars
    /\ [][(vpc = "threshold" /\ vpc' = "render") =>
            /\ dirty_tiles' = dirty_tiles
            /\ dirty_tile_count' =
                  Cardinality({t \in 0..(BITMAP_WORDS * WORD_BITS - 1) :
                                 BitOf(t) \in dirty_tiles[WordOf(t)]})]_vars

\* C33 witness: a drain has taken two bits or more, and a mark made after
\* its word's exchange is waiting in write_dirty_tiles.
C33_Witness ==
    /\ vpc = "threshold" /\ drain_count >= 2
    /\ write_dirty_tiles # ZeroBitmap
    /\ mid_drain_marks # {}

\* C34: set_palette(pal, num) overwrites exactly the entries
\* 0..min(num, 256)-1 of palette_rgb565 and leaves every other entry as it
\* was, for any num, above 256 and at or below 0 included: the loop starts at
\* entry 0, each iteration writes the entry of its index and nothing else and
\* moves to the next index, and it ends at index max(0, min(num, 256)).
C34_PaletteRange ==
    /\ [][(cpc = "idle" /\ cpc' = "pal_store") =>
            (cur'.i = 0 /\ palette_rgb565' = palette_rgb565)]_vars
    /\ [][(cpc = "pal_store" /\ cpc' = "pal_store") =>
            /\ 0 <= cur.i /\ cur.i < cur.b /\ cur.i < 256
            /\ cur'.i = cur.i + 1 /\ cur'.b = cur.b /\ cur'.a = cur.a
            /\ \A j \in DOMAIN palette_rgb565 :
                  palette_rgb565'[j] =
                    IF j = cur.i
                    THEN rgb888_to_rgb565(cur.a \div 65536, (cur.a \div 256) % 256,
                                          cur.a % 256)
                    ELSE palette_rgb565[j]]_vars
    /\ [][(cpc = "pal_store" /\ cpc' # "pal_store") =>
            /\ cur.i = (IF cur.b <= 0 THEN 0 ELSE IF cur.b < 256 THEN cur.b ELSE 256)
            /\ palette_rgb565' = palette_rgb565]_vars
    /\ [][(cpc = "pal_force") => palette_rgb565' = palette_rgb565]_vars

\* C34 witness: a second set_palette, with num above 256, has left its loop
\* after 256 entries, with the new colour in entry 0.
C34_Witness ==
    /\ cpc = "pal_force" /\ pal_returned
    /\ cur.b > 256 /\ cur.i = 256
    /\ palette_rgb565[0] = rgb888_to_rgb565(128, 128, 128)

C36_RangeInsideWrite ==
    [][(cpc \in {"range_first", "range_last"} /\ cur.b # 0) =>
         LET end == IF cur.b < 0 \/ cur.a + cur.b > frame_buffer_size
                    THEN frame_buffer_size ELSE cur.a + cur.b
             HoldsByte(t) ==
                 \E row \in 0..(TILE_HEIGHT - 1) :
                    LET src == ((t \div TILES_X) * TILE_HEIGHT + row) * MAC_SCREEN_WIDTH
                                 + (t % TILES_X) * TILE_WIDTH
                    IN  src + TILE_WIDTH - 1 >= cur.a /\ src < end
         IN  \A t \in TilesOf(write_dirty_tiles') : HoldsByte(t)]_vars

\* C37: every tile index VideoMarkDirtyOffset computes lies in 0..143, only
\* the bits of tiles 0..143 are ever set in the five words of
\* write_dirty_tiles and dirty_tiles, dirty_tile_count lies in 0..144, and a
\* mark with offset >= frame_buffer_size, every mark before VideoInit
\* included, sets no bit.
C37_BitmapBounds ==
    /\ []((cpc = "mark_offset" /\ MarkPasses(cur.a)) =>
             (TileOfOffset(cur.a) \in 0..(TOTAL_TILES - 1)
                /\ WordOf(TileOfOffset(cur.a)) \in 0..(BITMAP_WORDS - 1)))
    /\ [](\A w \in 0..(BITMAP_WORDS - 1) :
             \A b \in write_dirty_tiles[w] \cup dirty_tiles[w] :
                b \in 0..(WORD_BITS - 1) /\ w * WORD_BITS + b < TOTAL_TILES)
    /\ [](DOMAIN write_dirty_tiles = 0..(BITMAP_WORDS - 1)
             /\ DOMAIN dirty_tiles = 0..(BITMAP_WORDS - 1))
    /\ [](dirty_tile_count \in 0..TOTAL_TILES)
    /\ [][(cpc = "mark_offset" /\ cpc' = "idle"
              /\ ~(0 <= cur.a /\ cur.a < frame_buffer_size)) =>
            (write_dirty_tiles' = write_dirty_tiles)]_vars

\* C37 witness: a mark of the first offset beyond the buffer has returned
\* with the bit of the last tile, marked earlier, as the only one set.
C37_Witness ==
    /\ cpc = "idle" /\ script = <<>> /\ frame_buffer_size = FRAME_BYTES
    /\ TilesOf(write_dirty_tiles) = {TOTAL_TILES - 1}
    /\ FRAME_BYTES \in unshown

\* C38 as stated: VideoInit returns true only when the render task was
\* created, so that after a successful VideoInit a consumer loop is running:
\* the step in which VideoInit returns true leaves a task handle and a task
\* at the start of its function.
C38_TrueMeansTask ==
    [][(init_result # "true" /\ init_result' = "true") =>
         (video_task_handle' # "NULL" /\ vpc' = "start")]_vars

\* C39 as stated: VideoGetFrameBufferSize() returns 0 whenever
\* VideoGetFrameBuffer() returns NULL, before VideoInit, after a failed
\* VideoInit and after VideoExit.  The two functions return the globals
\* frame_buffer_size and mac_frame_buffer as they are.
C39_NullMeansZeroSize ==
    (mac_frame_buffer = "NULL") => (frame_buffer_size = 0)

\* C7: a render step that went on with the forced-full flag clear and a
\* dirty count of zero runs neither a full nor a partial update, pushes
\* nothing, and increments perf_skip_count.
C7_SkipWhenClean ==
    [][(vpc = "render" /\ vpc' # "render" /\ ~do_full_update /\ dirty_tile_count = 0) =>
         /\ vpc' = "finish"
         /\ step_kind' = "skip"
         /\ pushed' = <<>>
         /\ perf_skip_count' = perf_skip_count + 1
         /\ perf_full_count' = perf_full_count
         /\ perf_partial_count' = perf_partial_count]_vars

\* C7 witness: a step has skipped and counted it.
C7_Witness ==
    vpc = "finish" /\ step_kind = "skip" /\ perf_skip_count > 0 /\ pushed = <<>>
====
